---- MODULE Spec2Model ----
(***************************************************************************)
(* Curricular analytics: the requisite graph of a curriculum, the metrics  *)
(* computed over it, curriculum validity, and the bin-filling construction *)
(* of a degree plan (package curricularanalytics).                         *)
(*                                                                         *)
(* Courses are identified by their ids 1..NumCourses; the curriculum keeps *)
(* them sorted by id, and vertex i of the curriculum graph is the i-th     *)
(* course of that list (vertices are numbered from 1 here, from 0 in the   *)
(* code).  A course's `requisites` dict is a function from course ids to   *)
(* the requisite kind, "none" standing for an absent key.  Adjacency lists *)
(* of the networkx graph are walked in ascending vertex order.             *)
(***************************************************************************)
EXTENDS Integers, Sequences, FiniteSets, TLC

\* ------------------------------------------------------------------ bounds
NumCourses == 3
MaxReqs == 3
MaxBinReqs == 2
MaxPlanReqs == 1

MaxCsvReqs == 2

NumVertices == 4

MaxTopoEdges == 3

\* ------------------------------------------------------------ input domains
\* credit hours of a course (every course of the package's plan-creation tests has 3)
CreditChoices == {3}

\* min_cpt and max_cpt of a bin_filling call: the default min_cpt and one above a
\* course's credits; a max_cpt below one course's credits and one that takes two courses
MinCptChoices == {3, 4}

MaxCptChoices == {2, 6}

\* where a caller's degree plan puts a course: in no term, in one of three terms,
\* or in two terms
PlaceChoices == {{}, {1}, {2}, {3}, {1, 2}}

\* the caller's degree plans have three terms (some of them may be empty)
PlanTerms == {1, 2, 3}

VARIABLES
    requisites,     \* requisites[c][r]: kind of requisite r of course c, or "none"
    credit_hours,   \* credit_hours[c]
    num,            \* num[c]: the course number bin_filling sorts by
    pc,             \* where the caller is: "build", "constructed", "bin", "returned", "planned"
    graph,          \* Curriculum.graph: the edges built at construction
    UC,             \* bin_filling: the unplaced courses
    term_courses,   \* bin_filling: the current term
    term_credits,   \* bin_filling: credits of the current term
    terms,          \* bin_filling: the closed terms (each a sequence of courses)
    cpt,            \* bin_filling: the bounds of the call, [min |-> , max |-> ]
    system_type,    \* Curriculum.system_type: semester or quarter
    id,             \* id[c]: the id of course c (courses are numbered in the order of their ids)
    c1, c2,         \* two curricula of course objects, for similarity, merge and convert_ids
    cache,          \* Curriculum's cached_property values: cache[m] = [set |-> , val |-> ]
    ret             \* the last value returned to the caller, [op |-> , val |-> ]

vars == <<requisites, credit_hours, num, pc, graph, UC, term_courses, term_credits, terms, cpt,
          system_type, id, c1, c2, cache, ret>>

binvars == <<UC, term_courses, term_credits, terms, cpt>>

Courses == 1..NumCourses

pre == "pre"

co == "co"

strict_co == "strict_co"

Requisite == {pre, co, strict_co}

semester == "semester"

quarter == "quarter"

System == {semester, quarter}

\* nothing returned yet; `raised` tells a raised exception from a returned value
NoRet == [op |-> "none", raised |-> FALSE, val |-> FALSE]

Returned(op, val) == [op |-> op, raised |-> FALSE, val |-> val]

Raised(op) == [op |-> op, raised |-> TRUE, val |-> FALSE]

\* ----------------------------------------------------------- sequence helpers
Range(s) == {s[i] : i \in 1..Len(s)}

Contains(s, x) == \E i \in 1..Len(s) : s[i] = x

\* list.index(x) / list.remove(x): the first occurrence
IndexOf(s, x) == CHOOSE i \in 1..Len(s) : s[i] = x /\ \A j \in 1..(i - 1) : s[j] # x

RemoveAt(s, i) == [j \in 1..(Len(s) - 1) |-> IF j < i THEN s[j] ELSE s[j + 1]]

Remove(s, x) == RemoveAt(s, IndexOf(s, x))

RECURSIVE SumSeq(_)
SumSeq(s) == IF s = <<>> THEN 0 ELSE s[1] + SumSeq(Tail(s))

RECURSIVE SetToSeq(_)
SetToSeq(S) ==
    IF S = {} THEN <<>>
    ELSE LET m == CHOOSE x \in S : \A y \in S : x <= y
         IN <<m>> \o SetToSeq(S \ {m})

\* --------------------------------------------------------------- the courses
\* Course.requisites.keys()
ReqKeys(reqs, c) == {r \in Courses : reqs[c][r] # "none"}

NumReqs(reqs) == Cardinality({p \in Courses \X Courses : reqs[p[1]][p[2]] # "none"})

\* Curriculum.courses: sorted by id
courses == SetToSeq(Courses)

\* Curriculum._course_vertex
CourseVertex(course_id) == IndexOf(courses, course_id)

\* Curriculum._create_graph: a networkx.DiGraph with a node per course and an edge
\* requisite -> course for every requisite key
CreateGraph(reqs) ==
    [nodes |-> 1..Len(courses),
     edges |-> {<<CourseVertex(p[2]), p[1]>> : p \in
                 {q \in (1..Len(courses)) \X Courses : q[2] \in ReqKeys(reqs, courses[q[1]])}}]

\* functools.cached_property: no metric of the curriculum has been computed yet
CacheKeys ==
    {"blocking_factors", "delay_factors", "centralities", "complexities", "longest_paths",
     "basic_metrics"}

NoCache == [m \in CacheKeys |-> [set |-> FALSE, val |-> <<>>]]

\* networkx.DiGraph()
EmptyGraph == [nodes |-> {}, edges |-> {}]

\* ---------------------------------------------------------- graph primitives
\* g.neighbors(v) / g.successors(v)
Neighbors(g, v) == {w \in g.nodes : <<v, w>> \in g.edges}

\* sources of g.in_edges(v)
InNeighbors(g, v) == {u \in g.nodes : <<u, v>> \in g.edges}

\* g.out_degree(v)
OutDegree(g, v) == Cardinality(Neighbors(g, v))

\* g.in_degree(v)
InDegree(g, v) == Cardinality(InNeighbors(g, v))

\* the vertices reached from the set S by zero or more edges
RECURSIVE Closure(_, _)
Closure(g, S) ==
    LET T == S \cup {w \in g.nodes : \E v \in S : <<v, w>> \in g.edges}
    IN IF T = S THEN S ELSE Closure(g, T)

\* the vertices reached from v by one or more edges
Descendants(g, v) == Closure(g, Neighbors(g, v))

\* networkx.has_path(g, s, t): t is s or is reached from s
has_path(g, s, t) == s = t \/ t \in Descendants(g, s)

\* networkx.find_cycle(g) finds a cycle (it raises NetworkXNoCycle otherwise)
find_cycle(g) == \E v \in g.nodes : v \in Descendants(g, v)

NoRequisites == [c \in Courses |-> [r \in Courses |-> "none"]]

\* ------------------------------------------------------------ building phase
\* AbstractCourse.add_requisite: self.requisites[requisite_course.id] = requisite_type
AddRequisite(course, requisite_course, requisite_type, bound) ==
    /\ pc = "build"
    /\ LET reqs == [requisites EXCEPT ![course][requisite_course] = requisite_type]
       IN /\ NumReqs(reqs) <= bound
          /\ requisites' = reqs
    /\ UNCHANGED <<credit_hours, num, system_type, id, c1, c2, cache, pc, graph, binvars, ret>>

\* Curriculum.__init__: the graph is built once, from the requisites as they are now
Construct ==
    /\ pc = "build"
    /\ graph' = CreateGraph(requisites)
    /\ pc' = "constructed"
    /\ UNCHANGED <<requisites, credit_hours, num, system_type, id, c1, c2, cache, binvars, ret>>

\* ------------------------------------------------------------- bin_filling
\* course_num: the key UC is sorted by
course_num(c) == num[c]

\* list.sort(key=...): a stable sort, here by insertion
RECURSIVE InsertByKey(_, _, _)
InsertByKey(s, x, key) ==
    IF s = <<>> THEN <<x>>
    ELSE IF key[x] < key[s[1]] THEN <<x>> \o s
    ELSE <<s[1]>> \o InsertByKey(Tail(s), x, key)

RECURSIVE SortByKey(_, _)
SortByKey(s, key) ==
    IF s = <<>> THEN <<>>
    ELSE InsertByKey(SortByKey(SubSeq(s, 1, Len(s) - 1), key), s[Len(s)], key)

\* select_vertex, invariant 1: no other course of UC has a path to target
Invariant1(g, uc, target) ==
    \A i \in 1..Len(uc) :
        uc[i] # target => ~has_path(g, IndexOf(courses, uc[i]), IndexOf(courses, target))

\* faulty variant of Invariant2: target is looked up in the requisites of the
\* courses of the current term
Invariant2_Reversed(reqs, tc, target) ==
    \A i \in 1..Len(tc) : reqs[tc[i]][target] # pre

\* select_vertex, invariant 2: target has no course of the current term as a pre requisite
Invariant2(reqs, tc, target) ==
    \A i \in 1..Len(tc) : reqs[target][tc[i]] # pre

\* select_vertex: the first target of UC meeting both invariants, 0 for None
select_vertex(g, reqs, tc, uc) ==
    LET ok == {i \in 1..Len(uc) : Invariant1(g, uc, uc[i]) /\ Invariant2(reqs, tc, uc[i])}
    IN IF ok = {} THEN 0 ELSE uc[CHOOSE i \in ok : \A j \in ok : i <= j]

\* faulty variant of StrictCoLoop: a strict co-requisite partner is appended to the
\* term without `UC.remove(course)`
RECURSIVE StrictCoLoop_KeepInUC(_, _, _, _)
StrictCoLoop_KeepInUC(reqs, c, st, i) ==
    IF i > Len(st.uc) THEN st
    ELSE LET course == st.uc[i]
         IN IF reqs[course][c] = strict_co
            THEN StrictCoLoop_KeepInUC(reqs, c,
                     [uc |-> st.uc,
                      tc |-> Append(st.tc, course),
                      credits |-> st.credits + credit_hours[course]],
                     i + 1)
            ELSE StrictCoLoop_KeepInUC(reqs, c, st, i + 1)

\* bin_filling lines 53-59: `for course in UC` walks UC by position while the body
\* removes from it, so the course that follows a removed one is stepped over.
\* st = [uc, tc, credits]; i is the position the iterator is at.
RECURSIVE StrictCoLoop(_, _, _, _)
StrictCoLoop(reqs, c, st, i) ==
    IF i > Len(st.uc) THEN st
    ELSE LET course == st.uc[i]
         IN IF reqs[course][c] = strict_co
            THEN StrictCoLoop(reqs, c,
                     [uc |-> Remove(st.uc, course),
                      tc |-> Append(st.tc, course),
                      credits |-> st.credits + credit_hours[course]],
                     i + 1)
            ELSE StrictCoLoop(reqs, c, st, i + 1)

\* Term(courses).credit_hours
TermCredits(t) == SumSeq([i \in 1..Len(t) |-> credit_hours[t[i]]])

\* bin_filling lines 36-40, called on a constructed curriculum
BinFillingCall(min_cpt, max_cpt) ==
    /\ pc = "constructed"
    /\ pc' = "bin"
    /\ terms' = <<>>
    /\ term_credits' = 0
    /\ term_courses' = <<>>
    /\ UC' = SortByKey(courses, [c \in Courses |-> course_num(c)])
    /\ cpt' = [min |-> min_cpt, max |-> max_cpt]
    /\ UNCHANGED <<requisites, credit_hours, num, system_type, id, c1, c2, cache, graph, ret>>

\* one turn of the while loop in which select_vertex finds a course (lines 43-59)
BinPlace ==
    /\ pc = "bin"
    /\ Len(UC) > 0
    /\ \E c \in {select_vertex(graph, requisites, term_courses, UC)} :
        /\ c # 0
        /\ \E fits \in {term_credits + credit_hours[c] <= cpt.max} :
           \E st \in {StrictCoLoop(requisites, c,
                        [uc |-> Remove(UC, c),
                         tc |-> IF fits THEN Append(term_courses, c) ELSE <<c>>,
                         credits |-> IF fits THEN term_credits + credit_hours[c]
                                     ELSE credit_hours[c]],
                        1)} :
                /\ terms' = IF fits THEN terms ELSE Append(terms, term_courses)
                /\ UC' = st.uc
                /\ term_courses' = st.tc
                /\ term_credits' = st.credits
    /\ UNCHANGED <<requisites, credit_hours, num, system_type, id, c1, c2, cache, pc, graph, cpt, ret>>

\* one turn of the while loop in which select_vertex returns None (lines 60-64)
BinNewTerm ==
    /\ pc = "bin"
    /\ Len(UC) > 0
    /\ select_vertex(graph, requisites, term_courses, UC) = 0
    /\ terms' = IF Len(term_courses) > 0 THEN Append(terms, term_courses) ELSE terms
    /\ term_courses' = <<>>
    /\ term_credits' = 0
    /\ UNCHANGED <<requisites, credit_hours, num, system_type, id, c1, c2, cache, pc, graph, UC,
                   cpt, ret>>

\* the loop ends: the last term is appended and the terms returned (lines 65-67)
BinReturn ==
    /\ pc = "bin"
    /\ Len(UC) = 0
    /\ terms' = IF Len(term_courses) > 0 THEN Append(terms, term_courses) ELSE terms
    /\ pc' = "returned"
    /\ ret' = Returned("bin_filling", "terms")
    /\ UNCHANGED <<requisites, credit_hours, num, system_type, id, c1, c2, cache, graph, UC,
                   term_courses, term_credits, cpt>>

\* create_degree_plan lines 89-93, once create_terms has returned
CreateDegreePlan ==
    /\ pc = "returned"
    /\ pc' = "planned"
    /\ ret' = Returned("create_degree_plan", IF ret.val = "False" THEN "None" ELSE "DegreePlan")
    /\ UNCHANGED <<requisites, credit_hours, num, system_type, id, c1, c2, cache, graph, binvars>>

\* ------------------------------------------------------ DegreePlan.is_valid
\* lines 137-149: a course of an earlier term lists a course of a later term
BackwardRequisite(reqs, ts) ==
    \E i \in 1..Len(ts) : \E j \in 1..(i - 1) :
        \E a \in 1..Len(ts[i]) : \E b \in 1..Len(ts[j]) :
            ts[i][a] \in ReqKeys(reqs, ts[j][b])

\* faulty variant of SameTermPre: without `if course == r: continue`
SameTermPre_NoSkip(reqs, ts) ==
    \E i \in 1..Len(ts) : \E a, b \in 1..Len(ts[i]) : reqs[ts[i][a]][ts[i][b]] = pre

\* lines 151-163: a course has a pre requisite in its own term
SameTermPre(reqs, ts) ==
    \E i \in 1..Len(ts) : \E a, b \in 1..Len(ts[i]) :
        /\ ts[i][a] # ts[i][b]
        /\ reqs[ts[i][a]][ts[i][b]] = pre

PlanCourses(ts) == UNION {Range(ts[i]) : i \in 1..Len(ts)}

\* lines 166-182: a curriculum course is in no term
MissingCourse(ts) == Range(courses) \ PlanCourses(ts) # {}

\* lines 184-195: a course id is met a second time
DuplicateCourse(ts) ==
    \E i, j \in 1..Len(ts) : \E a \in 1..Len(ts[i]) : \E b \in 1..Len(ts[j]) :
        /\ <<i, a>> # <<j, b>>
        /\ ts[i][a] = ts[j][b]

DegreePlanIsValid(reqs, ts) ==
    /\ ~BackwardRequisite(reqs, ts)
    /\ ~SameTermPre(reqs, ts)
    /\ ~MissingCourse(ts)
    /\ ~DuplicateCourse(ts)

\* DegreePlan.is_valid() on the plan create_degree_plan returned or the caller
\* has built
PlanIsValid ==
    /\ pc = "planned"
    /\ ret.op \in {"create_degree_plan", "DegreePlan"}
    /\ ret.val = "DegreePlan"
    /\ ret' = Returned("plan.is_valid", DegreePlanIsValid(requisites, terms))
    /\ UNCHANGED <<requisites, credit_hours, num, system_type, id, c1, c2, cache, pc, graph, binvars>>

\* ------------------------------------------------- specification: bin filling
NumChoices == {[c \in Courses |-> c], [c \in Courses |-> NumCourses + 1 - c]}

InitBin ==
    /\ requisites = NoRequisites
    /\ credit_hours \in [Courses -> CreditChoices]
    /\ num \in NumChoices
    /\ pc = "build"
    /\ graph = EmptyGraph
    /\ UC = <<>>
    /\ term_courses = <<>>
    /\ term_credits = 0
    /\ terms = <<>>
    /\ cpt = [min |-> 0, max |-> 0]
    /\ system_type = semester
    /\ id = [c \in Courses |-> c]
    /\ c1 = <<>>
    /\ c2 = <<>>
    /\ cache = NoCache
    /\ ret = NoRet

NextBin ==
    \/ \E c, r \in Courses : \E k \in Requisite : AddRequisite(c, r, k, MaxBinReqs)
    \/ Construct
    \/ \E m \in MinCptChoices : \E M \in MaxCptChoices : BinFillingCall(m, M)
    \/ BinPlace
    \/ BinNewTerm
    \/ BinReturn
    \/ CreateDegreePlan
    \/ PlanIsValid

SpecBin == InitBin /\ [][NextBin]_vars

\* ------------------------------------- specification: bin filling, run to its end
\* the loop of bin_filling keeps running: a turn that can be taken is taken
SpecBinLive == InitBin /\ [][NextBin]_vars /\ WF_vars(BinPlace \/ BinNewTerm \/ BinReturn)

\* -------------------------------------------------------- Curriculum.is_valid
\* networkx.simple_cycles(g): every elementary circuit once, self-loops included.
\* A circuit is listed from its smallest vertex; CyclesFrom extends a simple path
\* that starts at s and stays among the vertices above s.
RECURSIVE CyclesFrom(_, _, _)
CyclesFrom(g, s, path) ==
    LET last == path[Len(path)]
    IN (IF <<last, s>> \in g.edges THEN {path} ELSE {})
       \cup UNION {CyclesFrom(g, s, Append(path, w)) :
                     w \in {x \in Neighbors(g, last) : x > s /\ ~Contains(path, x)}}

simple_cycles(g) == UNION {CyclesFrom(g, s, <<s>>) : s \in g.nodes}

\* faulty variant of StrictCoReverseEdges: the strict_co requisites add no edge
StrictCoReverseEdges_None(reqs) == {}

\* is_valid lines 329-335: a reverse edge for every strict_co requisite
StrictCoReverseEdges(reqs) ==
    {<<p[1], CourseVertex(p[2])>> : p \in
        {q \in (1..Len(courses)) \X Courses : reqs[courses[q[1]]][q[2]] = strict_co}}

\* is_valid lines 322-352: no cycle in the graph, and none of length other than 2
\* once the reverse strict_co edges are added
CurriculumIsValid(g, reqs) ==
    LET cycles == simple_cycles(g)
        new_cycles == {c \in simple_cycles([g EXCEPT !.edges = @ \cup StrictCoReverseEdges(reqs)]) :
                         Len(c) # 2}
    IN Cardinality(new_cycles \cup cycles) = 0

\* ------------------------------------------------------------ reachable_from
\* faulty variant of ReachableFromLoop: a neighbour is appended without `if v not in vlist`
RECURSIVE ReachableFromLoop_NoCheck(_, _, _, _, _)
ReachableFromLoop_NoCheck(g, ns, i, acc, depth) ==
    IF acc.raised \/ i > Len(ns) THEN acc
    ELSE LET v == ns[i]
             vlist == Append(acc.vlist, v)
         IN IF depth + 1 > Cardinality(g.nodes)
            THEN [raised |-> TRUE, vlist |-> vlist]
            ELSE ReachableFromLoop_NoCheck(g, ns, i + 1,
                     ReachableFromLoop_NoCheck(g, SetToSeq(Neighbors(g, v)), 1,
                         [raised |-> FALSE, vlist |-> vlist], depth + 1),
                     depth)

\* reachable_from(g, s, vlist): every neighbour is appended if new and then
\* recursed into, new or not.  On a graph with a cycle reachable from s the
\* recursion never ends and Python raises RecursionError; a chain of nested calls
\* longer than the number of vertices is on such a cycle.  The result is
\* [raised, vlist].
RECURSIVE ReachableFromLoop(_, _, _, _, _)
ReachableFromLoop(g, ns, i, acc, depth) ==
    IF acc.raised \/ i > Len(ns) THEN acc
    ELSE LET v == ns[i]
             vlist == IF Contains(acc.vlist, v) THEN acc.vlist ELSE Append(acc.vlist, v)
         IN IF depth + 1 > Cardinality(g.nodes)
            THEN [raised |-> TRUE, vlist |-> vlist]
            ELSE ReachableFromLoop(g, ns, i + 1,
                     ReachableFromLoop(g, SetToSeq(Neighbors(g, v)), 1,
                         [raised |-> FALSE, vlist |-> vlist], depth + 1),
                     depth)

reachable_from(g, s) ==
    ReachableFromLoop(g, SetToSeq(Neighbors(g, s)), 1, [raised |-> FALSE, vlist |-> <<>>], 1)

\* ----------------------------------------------------------------- all_paths
\* all_paths lines 259-263: the sinks with a non-zero in-degree, in node order
Sinks(g) == SetToSeq({v \in g.nodes : OutDegree(g, v) = 0 /\ InDegree(g, v) > 0})

\* faulty variant of ExtendPath: a later in-neighbour is inserted in front of the copy
\* instead of overwriting its head
RECURSIVE ExtendPath_InsertInCopy(_, _, _, _)
ExtendPath_InsertInCopy(g, ins, i, st) ==
    IF i > Len(ins) THEN st
    ELSE LET u == ins[i]
             x == IF i = 1 THEN <<u>> \o st.x ELSE st.x
             y == IF i = 1 THEN x ELSE <<u>> \o x
         IN ExtendPath_InsertInCopy(g, ins, i + 1,
                IF InDegree(g, u) = 0
                THEN [x |-> x, que |-> st.que, paths |-> Append(st.paths, y)]
                ELSE [x |-> x, que |-> Append(st.que, y), paths |-> st.paths])

\* lines 270-285 for one path taken from the queue.  st = [x, que, paths]: the
\* first in-neighbour is inserted in front of x itself, each later one overwrites
\* the head of a copy of x
RECURSIVE ExtendPath(_, _, _, _)
ExtendPath(g, ins, i, st) ==
    IF i > Len(ins) THEN st
    ELSE LET u == ins[i]
             x == IF i = 1 THEN <<u>> \o st.x ELSE st.x
             y == IF i = 1 THEN x ELSE [x EXCEPT ![1] = u]
         IN ExtendPath(g, ins, i + 1,
                IF InDegree(g, u) = 0
                THEN [x |-> x, que |-> st.que, paths |-> Append(st.paths, y)]
                ELSE [x |-> x, que |-> Append(st.que, y), paths |-> st.paths])

\* lines 267-285: the queue is drained
RECURSIVE DrainQueue(_, _)
DrainQueue(g, st) ==
    IF st.que = <<>> THEN st.paths
    ELSE LET x == Head(st.que)
             r == ExtendPath(g, SetToSeq(InNeighbors(g, x[1])), 1,
                             [x |-> x, que |-> Tail(st.que), paths |-> st.paths])
         IN DrainQueue(g, [que |-> r.que, paths |-> r.paths])

\* lines 264-266: one backward search per sink
RECURSIVE PathsFromSinks(_, _, _, _)
PathsFromSinks(g, sinks, i, paths) ==
    IF i > Len(sinks) THEN paths
    ELSE PathsFromSinks(g, sinks, i + 1,
             DrainQueue(g, [que |-> <<<<sinks[i]>>>>, paths |-> paths]))

\* all_paths: raises on a graph with a cycle, else the list of paths
all_paths(g) ==
    IF find_cycle(g) THEN [raised |-> TRUE, paths |-> <<>>]
    ELSE [raised |-> FALSE, paths |-> PathsFromSinks(g, Sinks(g), 1, <<>>)]

\* ------------------------------------------------------------------- metrics
MaxOf(a, b) == IF a >= b THEN a ELSE b

\* Curriculum._blocking_factors
BlockingFactors(g) ==
    IF \E i \in g.nodes : reachable_from(g, i).raised
    THEN [raised |-> TRUE, per |-> <<>>]
    ELSE [raised |-> FALSE, per |-> [i \in g.nodes |-> Len(reachable_from(g, i).vlist)]]

\* Curriculum._delay_factors: 1 for every course, raised to the length of every
\* path the course is on
RECURSIVE DelayFactorsLoop(_, _, _)
DelayFactorsLoop(paths, i, delay_factors) ==
    IF i > Len(paths) THEN delay_factors
    ELSE DelayFactorsLoop(paths, i + 1,
             [v \in DOMAIN delay_factors |->
                 IF Contains(paths[i], v)
                 THEN MaxOf(delay_factors[v], Len(paths[i]))
                 ELSE delay_factors[v]])

\* faulty variant of DelayFactors: every course starts at 0
DelayFactors_FromZero(g) ==
    LET ap == all_paths(g)
    IN IF ap.raised THEN [raised |-> TRUE, per |-> <<>>]
       ELSE [raised |-> FALSE, per |-> DelayFactorsLoop(ap.paths, 1, [v \in g.nodes |-> 0])]

DelayFactors(g) ==
    LET ap == all_paths(g)
    IN IF ap.raised THEN [raised |-> TRUE, per |-> <<>>]
       ELSE [raised |-> FALSE, per |-> DelayFactorsLoop(ap.paths, 1, [v \in g.nodes |-> 1])]

\* faulty variant of Centralities: the error of all_paths is swallowed and 0 returned
Centralities_Swallow(g) ==
    LET ap == all_paths(g)
    IN [raised |-> FALSE,
        per |-> [i \in g.nodes |->
            SumSeq([k \in 1..Len(ap.paths) |->
                LET path == ap.paths[k]
                IN IF /\ Contains(path, i)
                      /\ Len(path) > 2
                      /\ path[1] # i
                      /\ path[Len(path)] # i
                   THEN Len(path) ELSE 0])]]

\* faulty variant of Centralities: the last vertex of a path counts as well
Centralities_CountSink(g) ==
    LET ap == all_paths(g)
    IN IF ap.raised THEN [raised |-> TRUE, per |-> <<>>]
       ELSE [raised |-> FALSE,
             per |-> [i \in g.nodes |->
                 SumSeq([k \in 1..Len(ap.paths) |->
                     LET path == ap.paths[k]
                     IN IF /\ Contains(path, i)
                           /\ Len(path) > 2
                           /\ path[1] # i
                        THEN Len(path) ELSE 0])]]

\* Curriculum._centralities
Centralities(g) ==
    LET ap == all_paths(g)
    IN IF ap.raised THEN [raised |-> TRUE, per |-> <<>>]
       ELSE [raised |-> FALSE,
             per |-> [i \in g.nodes |->
                 SumSeq([k \in 1..Len(ap.paths) |->
                     LET path == ap.paths[k]
                     IN IF /\ Contains(path, i)
                           /\ Len(path) > 2
                           /\ path[1] # i
                           /\ path[Len(path)] # i
                        THEN Len(path) ELSE 0])]]

\* blocking_factor / delay_factor / centrality of every course and the
\* curriculum's total_..., as one reading
MetricValue(op, m) ==
    IF m.raised THEN Raised(op)
    ELSE Returned(op, [per |-> m.per, total |-> SumSeq(m.per)])

\* --------------------------------------------- Curriculum.extraneous_requisites
\* faulty variant of RemoveRequisite: the kind of the requisite is not looked at
RemoveRequisite_AnyKind(g, reqs, u, v) == TRUE

\* lines 391-402: (u, v) is kept when a neighbour of u with a path to v has u as
\* a co or strict_co requisite
RemoveRequisite(g, reqs, u, v) ==
    \A neighbor \in Neighbors(g, u) :
        has_path(g, neighbor, v) =>
            reqs[courses[neighbor]][courses[u]] \notin {co, strict_co}

\* lines 380-409: the search from the neighbours of u; every vertex taken from the
\* queue puts its neighbours on it
RECURSIVE ExtraneousSearch(_, _, _, _, _)
ExtraneousSearch(g, reqs, u, queue, redundant_reqs) ==
    IF queue = <<>> THEN redundant_reqs
    ELSE LET x == Head(queue)
         IN ExtraneousSearch(g, reqs, u, Tail(queue) \o SetToSeq(Neighbors(g, x)),
                redundant_reqs \cup
                    {<<u, v>> : v \in {w \in Neighbors(g, x) :
                                        <<u, w>> \in g.edges /\ RemoveRequisite(g, reqs, u, w)}})

\* networkx.weakly_connected_components: the component of v
WeakComponent(g, v) == Closure([g EXCEPT !.edges = @ \cup {<<e[2], e[1]>> : e \in g.edges}], {v})

\* extraneous_requisites: raises on a graph with a cycle, else the set of pairs
extraneous_requisites(g, reqs) ==
    IF find_cycle(g) THEN Raised("extraneous_requisites")
    ELSE Returned("extraneous_requisites",
             UNION {ExtraneousSearch(g, reqs, u, SetToSeq(Neighbors(g, u)), {}) :
                      u \in {v \in g.nodes : Cardinality(WeakComponent(g, v)) > 1}})

\* ------------------------------------------------------------ worked curricula
\* test_8_vertex_test_curriculum: courses A..H as vertices 1..8,
\* (A,C), (B,C), (D,C), (C,E), (D,F)
Worked8Graph ==
    [nodes |-> 1..8, edges |-> {<<1, 3>>, <<2, 3>>, <<4, 3>>, <<3, 5>>, <<4, 6>>}]

\* test_7_vertex_test_curriculum: courses A..G as vertices 1..7,
\* (A,B), (A,C), (B,D), (C,D), (C,E), (D,F), (D,G), (G,F)
Worked7Graph ==
    [nodes |-> 1..7,
     edges |-> {<<1, 2>>, <<1, 3>>, <<2, 4>>, <<3, 4>>, <<3, 5>>, <<4, 6>>, <<4, 7>>, <<7, 6>>}]

\* test_delay_factor_multiple_paths: courses A..D as vertices 1..4,
\* (A,B), (A,C), (B,D), (C,D)
WorkedDiamondGraph ==
    [nodes |-> 1..4, edges |-> {<<1, 2>>, <<1, 3>>, <<2, 4>>, <<3, 4>>}]

\* ------------------------------------------------- the analyses, as operations
\* each is called on a constructed curriculum and hands its result to the caller

\* curriculum.is_valid()
IsValid ==
    /\ pc = "constructed"
    /\ pc' = "analysed"
    /\ ret' = Returned("is_valid", CurriculumIsValid(graph, requisites))
    /\ UNCHANGED <<requisites, credit_hours, num, system_type, id, c1, c2, cache, graph, binvars>>

\* all_paths(curriculum.graph)
AllPaths ==
    /\ pc = "constructed"
    /\ pc' = "analysed"
    /\ \E ap \in {all_paths(graph)} :
        ret' = IF ap.raised THEN Raised("all_paths") ELSE Returned("all_paths", ap.paths)
    /\ UNCHANGED <<requisites, credit_hours, num, system_type, id, c1, c2, cache, graph, binvars>>

\* reachable_from(curriculum.graph, s)
ReachableFrom(s) ==
    /\ pc = "constructed"
    /\ pc' = "analysed"
    /\ \E rf \in {reachable_from(graph, s)} :
        ret' = IF rf.raised THEN Raised("reachable_from")
               ELSE Returned("reachable_from", [s |-> s, vlist |-> rf.vlist])
    /\ UNCHANGED <<requisites, credit_hours, num, system_type, id, c1, c2, cache, graph, binvars>>

\* curriculum.blocking_factor(c) for every c, and curriculum.total_blocking_factor
BlockingFactor ==
    /\ pc = "constructed"
    /\ pc' = "analysed"
    /\ \E m \in {BlockingFactors(graph)} : ret' = MetricValue("blocking_factor", m)
    /\ UNCHANGED <<requisites, credit_hours, num, system_type, id, c1, c2, cache, graph, binvars>>

\* curriculum.delay_factor(c) for every c, and curriculum.total_delay_factor
DelayFactor ==
    /\ pc = "constructed"
    /\ pc' = "analysed"
    /\ \E m \in {DelayFactors(graph)} : ret' = MetricValue("delay_factor", m)
    /\ UNCHANGED <<requisites, credit_hours, num, system_type, id, c1, c2, cache, graph, binvars>>

\* curriculum.centrality(c) for every c, and curriculum.total_centrality
Centrality ==
    /\ pc = "constructed"
    /\ pc' = "analysed"
    /\ \E m \in {Centralities(graph)} : ret' = MetricValue("centrality", m)
    /\ UNCHANGED <<requisites, credit_hours, num, system_type, id, c1, c2, cache, graph, binvars>>

\* curriculum.extraneous_requisites()
ExtraneousRequisites ==
    /\ pc = "constructed"
    /\ pc' = "analysed"
    /\ ret' = extraneous_requisites(graph, requisites)
    /\ UNCHANGED <<requisites, credit_hours, num, system_type, id, c1, c2, cache, graph, binvars>>

\* --------------------------------------- specification: curriculum analytics
\* the requisite kinds the analyses tell apart: strict_co and any other
AnalyticsKinds == {pre, strict_co}

InitCurric ==
    /\ requisites = NoRequisites
    /\ credit_hours = [c \in Courses |-> 3]
    /\ num = [c \in Courses |-> c]
    /\ pc = "build"
    /\ graph = EmptyGraph
    /\ UC = <<>>
    /\ term_courses = <<>>
    /\ term_credits = 0
    /\ terms = <<>>
    /\ cpt = [min |-> 0, max |-> 0]
    /\ system_type = semester
    /\ id = [c \in Courses |-> c]
    /\ c1 = <<>>
    /\ c2 = <<>>
    /\ cache = NoCache
    /\ ret = NoRet

NextCurric ==
    \/ \E c, r \in Courses : \E k \in AnalyticsKinds : AddRequisite(c, r, k, MaxReqs)
    \/ Construct
    \/ IsValid
    \/ AllPaths
    \/ \E s \in graph.nodes : ReachableFrom(s)
    \/ BlockingFactor
    \/ DelayFactor
    \/ Centrality

SpecCurric == InitCurric /\ [][NextCurric]_vars

\* --------------------------------------- specification: extraneous requisites
\* extraneous_requisites tells pre, co and strict_co requisites apart
ExtraneousKinds == {pre, co, strict_co}

\* the requisites are those of a course on another course
NextExtraneous ==
    \/ \E c, r \in Courses : \E k \in ExtraneousKinds :
        c # r /\ AddRequisite(c, r, k, MaxReqs)
    \/ Construct
    \/ ExtraneousRequisites

SpecExtraneous == InitCurric /\ [][NextExtraneous]_vars

\* ------------------------------------------------------------------ complexity
\* round(k * 2 / 3, ndigits=1), in tenths: the integer nearest to 20k/3 (20k/3 is
\* never half-way between two integers)
RoundTenths_Truncate(k) == (20 * k) \div 3

RoundTenths(k) == (40 * k + 3) \div 6

\* Curriculum._complexities; every value is held in tenths, 5.0 as 50
Complexities(g, st) ==
    LET df == DelayFactors(g)
        bf == BlockingFactors(g)
    IN IF df.raised \/ bf.raised THEN [raised |-> TRUE, per |-> <<>>]
       ELSE [raised |-> FALSE,
             per |-> [i \in g.nodes |->
                 IF st = quarter
                 THEN RoundTenths(df.per[i] + bf.per[i])
                 ELSE 10 * (df.per[i] + bf.per[i])]]

\* curriculum.complexity(c) for every c, and curriculum.total_complexity
Complexity ==
    /\ pc = "constructed"
    /\ pc' = "analysed"
    /\ \E m \in {Complexities(graph, system_type)} : ret' = MetricValue("complexity", m)
    /\ UNCHANGED <<requisites, credit_hours, num, system_type, id, c1, c2, cache, graph, binvars>>

\* ------------------------------------------- specification: complexity
InitComplexity ==
    /\ requisites = NoRequisites
    /\ credit_hours = [c \in Courses |-> 3]
    /\ num = [c \in Courses |-> c]
    /\ pc = "build"
    /\ graph = EmptyGraph
    /\ UC = <<>>
    /\ term_courses = <<>>
    /\ term_credits = 0
    /\ terms = <<>>
    /\ cpt = [min |-> 0, max |-> 0]
    /\ system_type \in System
    /\ id = [c \in Courses |-> c]
    /\ c1 = <<>>
    /\ c2 = <<>>
    /\ cache = NoCache
    /\ ret = NoRet

NextComplexity ==
    \/ \E c, r \in Courses : AddRequisite(c, r, pre, MaxReqs)
    \/ Construct
    \/ Complexity

SpecComplexity == InitComplexity /\ [][NextComplexity]_vars

\* ------------------------------------------- specification: degree plan validity
\* DegreePlan(name, curriculum, terms) with terms of the caller's choosing:
\* place[c] is the set of terms that hold course c
NewDegreePlan(place) ==
    /\ pc = "constructed"
    /\ pc' = "planned"
    /\ terms' = [i \in PlanTerms |-> SetToSeq({c \in Courses : i \in place[c]})]
    /\ ret' = Returned("DegreePlan", "DegreePlan")
    /\ UNCHANGED <<requisites, credit_hours, num, system_type, id, c1, c2, cache, graph, UC, term_courses,
                   term_credits, cpt>>

PlanKinds == {pre, co}

InitPlan ==
    /\ requisites = NoRequisites
    /\ credit_hours = [c \in Courses |-> 3]
    /\ num = [c \in Courses |-> c]
    /\ pc = "build"
    /\ graph = EmptyGraph
    /\ UC = <<>>
    /\ term_courses = <<>>
    /\ term_credits = 0
    /\ terms = <<>>
    /\ cpt = [min |-> 0, max |-> 0]
    /\ system_type = semester
    /\ id = [c \in Courses |-> c]
    /\ c1 = <<>>
    /\ c2 = <<>>
    /\ cache = NoCache
    /\ ret = NoRet

NextPlan ==
    \/ \E c, r \in Courses : \E k \in PlanKinds : AddRequisite(c, r, k, MaxPlanReqs)
    \/ Construct
    \/ \E place \in [Courses -> PlaceChoices] : NewDegreePlan(place)
    \/ PlanIsValid

SpecPlan == InitPlan /\ [][NextPlan]_vars

\* --------------------------------------------------- degree plan: requisite distance
\* faulty variant of find_term: the last term that holds the course
find_term_Last(ts, course) ==
    LET holding == {i \in 1..Len(ts) : Contains(ts[i], course)}
    IN IF holding = {} THEN [raised |-> TRUE, val |-> 0]
       ELSE [raised |-> FALSE, val |-> (CHOOSE i \in holding : \A j \in holding : j <= i) - 1]

\* DegreePlan.find_term: the index, counted from 0, of the first term that holds
\* the course; ValueError when no term does
find_term(ts, course) ==
    LET holding == {i \in 1..Len(ts) : Contains(ts[i], course)}
    IN IF holding = {} THEN [raised |-> TRUE, val |-> 0]
       ELSE [raised |-> FALSE, val |-> (CHOOSE i \in holding : \A j \in holding : i <= j) - 1]

\* DegreePlan.requisite_distance(course): the sum over course.requisites
requisite_distance(reqs, ts, course) ==
    LET keys == {r \in DOMAIN reqs[course] : reqs[course][r] # "none"}
        order == SetToSeq(keys)
    IN IF keys = {} THEN [raised |-> FALSE, val |-> 0]
       ELSE IF find_term(ts, course).raised \/ \E r \in keys : find_term(ts, r).raised
       THEN [raised |-> TRUE, val |-> 0]
       ELSE [raised |-> FALSE,
             val |-> SumSeq([k \in 1..Len(order) |->
                        find_term(ts, course).val - find_term(ts, order[k]).val])]

\* DegreePlan.total_requisite_distance: the sum over curriculum.courses
total_requisite_distance(reqs, ts) ==
    LET all == SetToSeq(DOMAIN reqs)
    IN IF \E c \in DOMAIN reqs : requisite_distance(reqs, ts, c).raised
       THEN [raised |-> TRUE, val |-> 0]
       ELSE [raised |-> FALSE,
             val |-> SumSeq([k \in 1..Len(all) |-> requisite_distance(reqs, ts, all[k]).val])]

\* plan.requisite_distance(c) for every course c, and plan.total_requisite_distance
RequisiteDistance ==
    /\ pc = "planned"
    /\ ret.op = "DegreePlan"
    /\ ret' = Returned("requisite_distance",
                  [per |-> [c \in Courses |-> requisite_distance(requisites, terms, c)],
                   total |-> total_requisite_distance(requisites, terms)])
    /\ UNCHANGED <<requisites, credit_hours, num, system_type, id, c1, c2, cache, pc, graph, binvars>>

\* the plan of test_degree_plan_analytics: courses A..F as 1..6,
\* (A,C), (A,E), (B,E), (B,F) pre, (D,E) co, (F,E) strict_co; terms [A,B], [C,D], [E,F]
WorkedPlanRequisites ==
    [c \in 1..6 |-> [r \in 1..6 |->
        CASE c = 3 /\ r = 1 -> pre
          [] c = 5 /\ r \in {1, 2} -> pre
          [] c = 5 /\ r = 4 -> co
          [] c = 5 /\ r = 6 -> strict_co
          [] c = 6 /\ r = 2 -> pre
          [] OTHER -> "none"]]

WorkedPlanTerms == <<<<1, 2>>, <<3, 4>>, <<5, 6>>>>

\* ------------------------------------------ specification: degree plan metrics
InitPlanMetrics ==
    /\ requisites = NoRequisites
    /\ credit_hours = [c \in Courses |-> 3]
    /\ num = [c \in Courses |-> c]
    /\ pc = "build"
    /\ graph = EmptyGraph
    /\ UC = <<>>
    /\ term_courses = <<>>
    /\ term_credits = 0
    /\ terms = <<>>
    /\ cpt = [min |-> 0, max |-> 0]
    /\ system_type = semester
    /\ id = [c \in Courses |-> c]
    /\ c1 = <<>>
    /\ c2 = <<>>
    /\ cache = NoCache
    /\ ret = NoRet

\* the prerequisites are those of a course on a course of smaller number, as in
\* the worked plan
NextPlanMetrics ==
    \/ \E c, r \in Courses : r < c /\ AddRequisite(c, r, pre, MaxBinReqs)
    \/ Construct
    \/ \E place \in [Courses -> PlaceChoices] : NewDegreePlan(place)
    \/ RequisiteDistance

SpecPlanMetrics == InitPlanMetrics /\ [][NextPlanMetrics]_vars

\* ------------------------------------------------------------------ longest_path
\* networkx.shortest_path(g, s) without weights: breadth-first from s, a vertex
\* keeps the path it was first reached by; the paths in the order of the dict
RECURSIVE ShortestPathsLoop(_, _, _)
ShortestPathsLoop(g, queue, paths) ==
    IF queue = <<>> THEN paths
    ELSE LET p == Head(queue)
             reached == {q[Len(q)] : q \in Range(paths)}
             new == SetToSeq(Neighbors(g, p[Len(p)]) \ reached)
             found == [k \in 1..Len(new) |-> Append(p, new[k])]
         IN ShortestPathsLoop(g, Tail(queue) \o found, paths \o found)

shortest_path(g, s) == ShortestPathsLoop(g, <<<<s>>>>, <<<<s>>>>)

\* lines 307-311: the first path that is longer than every path before it
RECURSIVE FirstLongest(_, _, _)
FirstLongest(paths, i, lp) ==
    IF i > Len(paths) THEN lp
    ELSE FirstLongest(paths, i + 1, IF Len(paths[i]) > Len(lp) THEN paths[i] ELSE lp)

\* longest_path(g, s)
longest_path(g, s) ==
    IF find_cycle(g) THEN [raised |-> TRUE, path |-> <<>>]
    ELSE [raised |-> FALSE, path |-> FirstLongest(shortest_path(g, s), 1, <<>>)]

\* longest_path(curriculum.graph, s)
LongestPath(s) ==
    /\ pc = "constructed"
    /\ pc' = "analysed"
    /\ \E lp \in {longest_path(graph, s)} :
        ret' = IF lp.raised THEN Raised("longest_path")
               ELSE Returned("longest_path", [s |-> s, path |-> lp.path])
    /\ UNCHANGED <<requisites, credit_hours, num, system_type, id, c1, c2, cache, graph, binvars>>

\* ------------------------------------------------------------------ edge_crossings
\* g.has_edge(u, v) of a DiGraph: the edge from u to v
has_edge(g, u, v) == <<u, v>> \in g.edges

\* edge_crossings_vertex(g, s, d): the v of d with an edge from s to v
edge_crossings_vertex(g, s, d) ==
    SumSeq([k \in 1..Len(d) |-> IF has_edge(g, s, d[k]) THEN 1 ELSE 0])

\* edge_crossings(g, s): d is the nodes of g that are not in the list s
edge_crossings(g, s) ==
    LET d == SetToSeq({x \in g.nodes : ~Contains(s, x)})
    IN SumSeq([k \in 1..Len(s) |-> edge_crossings_vertex(g, s[k], d)])

\* edge_crossings(curriculum.graph, s) for a list s of vertices
EdgeCrossings(s) ==
    /\ pc = "constructed"
    /\ pc' = "analysed"
    /\ ret' = Returned("edge_crossings", [s |-> s, total |-> edge_crossings(graph, s)])
    /\ UNCHANGED <<requisites, credit_hours, num, system_type, id, c1, c2, cache, graph, binvars>>

\* ------------------------------------------- specification: graph algorithms
InitGraph ==
    /\ requisites = NoRequisites
    /\ credit_hours = [c \in Courses |-> 3]
    /\ num = [c \in Courses |-> c]
    /\ pc = "build"
    /\ graph = EmptyGraph
    /\ UC = <<>>
    /\ term_courses = <<>>
    /\ term_credits = 0
    /\ terms = <<>>
    /\ cpt = [min |-> 0, max |-> 0]
    /\ system_type = semester
    /\ id = [c \in Courses |-> c]
    /\ c1 = <<>>
    /\ c2 = <<>>
    /\ cache = NoCache
    /\ ret = NoRet

NextGraph ==
    \/ \E c, r \in Courses : AddRequisite(c, r, pre, MaxReqs)
    \/ Construct
    \/ \E s \in graph.nodes : LongestPath(s)
    \/ \E S \in SUBSET graph.nodes : EdgeCrossings(SetToSeq(S))

SpecGraph == InitGraph /\ [][NextGraph]_vars

\* ------------------------------------------------- degree plan: knowledge_transfer
\* the ids a caller's courses carry: the numbers 1..n of a CSV file, numbers that
\* are no vertex of the graph (the hashed default ids), and, set by assignment,
\* the vertex numbers 0..n-1 themselves
IdChoices ==
    {[c \in Courses |-> c], [c \in Courses |-> NumCourses + c], [c \in Courses |-> c - 1]}

\* the graph's nodes are range(len(courses)): node k of the code is vertex k + 1 here
NodeOf(k) == k + 1

\* lines 209-214: s, the ids of the courses of the terms up to term i, is handed
\* to edge_crossings as a list of nodes
TransferAt(g, ids, ts, i) ==
    LET RECURSIVE Collect(_)
        Collect(j) == IF j = 0 THEN <<>>
                      ELSE Collect(j - 1) \o [k \in 1..Len(ts[j]) |-> NodeOf(ids[ts[j][k]])]
    IN edge_crossings(g, Collect(i))

\* DegreePlan.knowledge_transfer: one value per term, the last one deleted
knowledge_transfer(g, ids, ts) ==
    IF Len(ts) = 0 THEN [raised |-> TRUE, values |-> <<>>, dropped |-> 0]
    ELSE [raised |-> FALSE,
          values |-> [i \in 1..(Len(ts) - 1) |-> TransferAt(g, ids, ts, i)],
          dropped |-> TransferAt(g, ids, ts, Len(ts))]

\* plan.knowledge_transfer()
KnowledgeTransfer ==
    /\ pc = "planned"
    /\ ret.op = "DegreePlan"
    /\ \E kt \in {knowledge_transfer(graph, id, terms)} :
        ret' = IF kt.raised THEN Raised("knowledge_transfer")
               ELSE Returned("knowledge_transfer", [values |-> kt.values, dropped |-> kt.dropped])
    /\ UNCHANGED <<requisites, credit_hours, num, system_type, id, c1, c2, cache, pc, graph, binvars>>

\* ------------------------------------------ specification: knowledge transfer
InitTransfer ==
    /\ requisites = NoRequisites
    /\ credit_hours = [c \in Courses |-> 3]
    /\ num = [c \in Courses |-> c]
    /\ pc = "build"
    /\ graph = EmptyGraph
    /\ UC = <<>>
    /\ term_courses = <<>>
    /\ term_credits = 0
    /\ terms = <<>>
    /\ cpt = [min |-> 0, max |-> 0]
    /\ system_type = semester
    /\ id \in IdChoices
    /\ c1 = <<>>
    /\ c2 = <<>>
    /\ cache = NoCache
    /\ ret = NoRet

NextTransfer ==
    \/ \E c, r \in Courses : AddRequisite(c, r, pre, MaxPlanReqs)
    \/ Construct
    \/ \E place \in [Courses -> PlaceChoices] : NewDegreePlan(place)
    \/ KnowledgeTransfer

SpecTransfer == InitTransfer /\ [][NextTransfer]_vars

\* -------------------------------------------------------------------- similarity
\* the identity fields a course of the two compared curricula may carry: a name
\* only, prefix and num only, both, or none
FieldChoices ==
    {[name |-> "X", prefix |-> "", num |-> ""],
     [name |-> "", prefix |-> "P", num |-> "1"],
     [name |-> "Y", prefix |-> "P", num |-> "1"],
     [name |-> "", prefix |-> "", num |-> ""]}

\* the course objects of S, given their fields, ids and requisites, as a list
CourseList(S, fields, ids, reqs) ==
    [k \in 1..Cardinality(S) |->
        LET o == SetToSeq(S)[k]
        IN [obj |-> o, id |-> ids[o], name |-> fields[o].name, prefix |-> fields[o].prefix,
            num |-> fields[o].num, requisites |-> reqs[o]]]

\* lines 806-817: the test of one course of self against one course of basis
\* when strict is false
LooseMatch(course, basis_course) ==
    \/ course.name # "" /\ basis_course.name = course.name
    \/ /\ course.prefix # ""
       /\ basis_course.prefix = course.prefix
       /\ course.num # ""
       /\ basis_course.num = course.num

\* Curriculum.similarity(self, basis, strict) for two different curricula; the
\* quotient matches / basis.num_courses is kept as numerator and denominator
similarity(self, basis, strict) ==
    IF Len(basis) = 0 THEN [raised |-> TRUE, matches |-> 0, of |-> 0]
    ELSE [raised |-> FALSE,
          matches |-> SumSeq([k \in 1..Len(self) |->
              IF strict
              THEN IF \E j \in 1..Len(basis) : basis[j].obj = self[k].obj THEN 1 ELSE 0
              ELSE IF \E j \in 1..Len(basis) : LooseMatch(self[k], basis[j]) THEN 1 ELSE 0]),
          of |-> Len(basis)]

\* c1.similarity(c2, strict=strict)
Similarity(strict) ==
    /\ pc = "compare"
    /\ pc' = "analysed"
    /\ \E sim \in {similarity(c1, c2, strict)} :
        ret' = IF sim.raised THEN Raised("similarity")
               ELSE Returned("similarity",
                        [strict |-> strict, matches |-> sim.matches, of |-> sim.of])
    /\ UNCHANGED <<requisites, credit_hours, num, system_type, id, c1, c2, cache, graph, binvars>>

\* c1.similarity(c1): `if self == basis: return 1`
SimilarityToSelf ==
    /\ pc = "compare"
    /\ pc' = "analysed"
    /\ ret' = IF Len(c1) = 0 THEN Raised("similarity_self")
              ELSE Returned("similarity_self", [matches |-> 1, of |-> 1])
    /\ UNCHANGED <<requisites, credit_hours, num, system_type, id, c1, c2, cache, graph, binvars>>

\* ---------------------------------------------------- specification: similarity
InitSimilarity ==
    /\ requisites = NoRequisites
    /\ credit_hours = [c \in Courses |-> 3]
    /\ num = [c \in Courses |-> c]
    /\ pc = "compare"
    /\ graph = EmptyGraph
    /\ UC = <<>>
    /\ term_courses = <<>>
    /\ term_credits = 0
    /\ terms = <<>>
    /\ cpt = [min |-> 0, max |-> 0]
    /\ system_type = semester
    /\ id = [c \in Courses |-> c]
    /\ \E fields \in [Courses -> FieldChoices] : \E S1, S2 \in SUBSET Courses :
        /\ c1 = CourseList(S1, fields, id, [c \in Courses |-> <<>>])
        /\ c2 = CourseList(S2, fields, id, [c \in Courses |-> <<>>])
    /\ cache = NoCache
    /\ ret = NoRet

NextSimilarity ==
    \/ \E strict \in BOOLEAN : Similarity(strict)
    \/ SimilarityToSelf

SpecSimilarity == InitSimilarity /\ [][NextSimilarity]_vars

\* ------------------------------------------------------------------ convert_ids
\* course_id(name, prefix, num, institution) = hash(name + prefix + num +
\* institution), the institution left empty: equal fields give equal values,
\* different fields different values far from the ids 1..n of a CSV file, and
\* hash("") is 0
course_id(name, prefix, number) ==
    IF name = "" /\ prefix = "" /\ number = "" THEN 0
    ELSE 100 + (IF name = "X" THEN 1 ELSE IF name = "Y" THEN 2 ELSE 0)
             + (IF prefix = "P" THEN 3 ELSE 0)
             + (IF number = "1" THEN 6 ELSE 0)

\* Course.default_id
default_id(course) == course_id(course.name, course.prefix, course.num)

\* AbstractCourse.add_requisite on a requisites dict
DictSet(d, key, kind) == [k \in DOMAIN d \cup {key} |-> IF k = key THEN kind ELSE d[k]]

\* del d[key]
DictDel(d, key) == [k \in DOMAIN d \ {key} |-> d[k]]

\* lines 182-185: the inner loop, for the course at position i that has just
\* been given new_id in place of old_id
RemapRequisites(cs, old_id, new_id) ==
    [j \in 1..Len(cs) |->
        IF old_id \in DOMAIN cs[j].requisites
        THEN [cs[j] EXCEPT !.requisites =
                 DictDel(DictSet(cs[j].requisites, new_id, cs[j].requisites[old_id]), old_id)]
        ELSE cs[j]]

\* lines 178-185: the outer loop from position i on
RECURSIVE ConvertLoop(_, _)
ConvertLoop(cs, i) ==
    IF i > Len(cs) THEN cs
    ELSE LET old_id == cs[i].id
             new_id == default_id(cs[i])
             renamed == [cs EXCEPT ![i].id = new_id]
         IN ConvertLoop(IF old_id # new_id THEN RemapRequisites(renamed, old_id, new_id)
                        ELSE renamed, i + 1)

\* Curriculum.convert_ids
convert_ids(cs) == ConvertLoop(cs, 1)

\* c1.convert_ids(); the courses as they were before the call are kept in c2
ConvertIds ==
    /\ pc = "csv"
    /\ pc' = "converted"
    /\ c1' = convert_ids(c1)
    /\ c2' = c1
    /\ ret' = Returned("convert_ids", "self")
    /\ UNCHANGED <<requisites, credit_hours, num, system_type, id, cache, graph, binvars>>

\* the requisites dict of course c built by add_requisite from the relation rel
\* of triples <<course, requisite, kind>>
DictOf(rel, ids, c) ==
    [k \in {ids[t[2]] : t \in {u \in rel : u[1] = c}} |->
        (CHOOSE t \in rel : t[1] = c /\ ids[t[2]] = k)[3]]

\* the requisite relations of at most n requisites, each pair of courses related
\* at most once
RECURSIVE RelationsUpTo(_)
RelationsUpTo(n) ==
    IF n = 0 THEN {{}}
    ELSE LET smaller == RelationsUpTo(n - 1)
         IN smaller \cup
            {rel \cup {<<c, r, k>>} :
                rel \in smaller,
                <<c, r, k>> \in {t \in Courses \X Courses \X {pre, co} : t[1] # t[2]}}

CsvRelations ==
    {rel \in RelationsUpTo(MaxCsvReqs) :
        \A t, u \in rel : (t[1] = u[1] /\ t[2] = u[2]) => t = u}

\* ----------------------------------------------------- specification: convert
\* a curriculum whose courses carry pairwise different ids, each the id of a CSV
\* file or the course's default id
InitConvert ==
    /\ requisites = NoRequisites
    /\ credit_hours = [c \in Courses |-> 3]
    /\ num = [c \in Courses |-> c]
    /\ pc = "csv"
    /\ graph = EmptyGraph
    /\ UC = <<>>
    /\ term_courses = <<>>
    /\ term_credits = 0
    /\ terms = <<>>
    /\ cpt = [min |-> 0, max |-> 0]
    /\ system_type = semester
    /\ \E fields \in [Courses -> FieldChoices] :
        /\ \E csv \in [Courses -> BOOLEAN] :
            id = [c \in Courses |->
                     IF csv[c] THEN c
                     ELSE course_id(fields[c].name, fields[c].prefix, fields[c].num)]
        /\ \A c, d \in Courses : c # d => id[c] # id[d]
        /\ \E rel \in CsvRelations :
            c1 = CourseList(Courses, fields, id, [c \in Courses |-> DictOf(rel, id, c)])
    /\ c2 = <<>>
    /\ cache = NoCache
    /\ ret = NoRet

NextConvert == ConvertIds

SpecConvert == InitConvert /\ [][NextConvert]_vars

\* ------------------------------------------------------------------------ merge
\* the match criteria merge is called with; the empty list asks for the same object
CriteriaChoices == {{}, {"name"}, {"prefix", "num"}}

\* the ids the course objects of the two curricula carry: default ids, the ids
\* 1..n of one CSV file, or the ids 1, 2 of two CSV files
MergeIdChoices(fields) ==
    {[c \in Courses |-> course_id(fields[c].name, fields[c].prefix, fields[c].num)],
     [c \in Courses |-> c],
     [c \in Courses |-> 1 + (c % 2)]}

\* AbstractCourse.match(self, other, match_criteria)
match(self, other, criteria) ==
    IF criteria = {} THEN self.obj = other.obj
    ELSE /\ "prefix" \in criteria => self.prefix = other.prefix
         /\ "num" \in criteria => self.num = other.num
         /\ "name" \in criteria => self.name = other.name

\* AbstractCourse.find_match(self, course_set, match_criteria) != None
find_match(self, course_set, criteria) ==
    \E k \in 1..Len(course_set) : match(self, course_set[k], criteria)

\* Curriculum.course_from_id: the first course of the list with the id
course_from_id(cs, cid) ==
    IF \E k \in 1..Len(cs) : cs[k].id = cid
    THEN [raised |-> FALSE,
          course |-> cs[CHOOSE k \in 1..Len(cs) :
                         cs[k].id = cid /\ \A j \in 1..(k - 1) : cs[j].id # cid]]
    ELSE [raised |-> TRUE, course |-> <<>>]

\* Course.copy: a new object with the same fields, the default id and no requisites
CopyOf(course) ==
    [obj |-> NumCourses + course.obj, id |-> default_id(course), name |-> course.name,
     prefix |-> course.prefix, num |-> course.num, requisites |-> <<>>]

\* lines 856-865: the courses of other that match no course of self
ExtraCourses(self, other, criteria) ==
    SelectSeq(other, LAMBDA course : ~find_match(course, self, criteria))

\* lines 874-885: the id one requisite req of an extra course is recorded under,
\* -1 when the requisite matches nowhere and the exception is raised
PatchedId(self, other, extra, criteria, req) ==
    LET req_course == course_from_id(other, req).course
    IN IF find_match(req_course, self, criteria) THEN req_course.id
       ELSE IF find_match(req_course, extra, criteria)
            THEN default_id(req_course)
            ELSE -1

\* lines 870-885: the clone of one extra course with its requisites patched up,
\* the keys taken in the order of the dict
RECURSIVE PatchUp(_, _, _, _, _, _, _)
PatchUp(self, other, extra, criteria, course, keys, new_course) ==
    IF keys = <<>> THEN new_course
    ELSE PatchUp(self, other, extra, criteria, course, Tail(keys),
            [new_course EXCEPT !.requisites =
                DictSet(@, PatchedId(self, other, extra, criteria, Head(keys)),
                        course.requisites[Head(keys)])])

\* sorted(courses, key=lambda c: c.id): a stable sort, here by insertion
RECURSIVE SortById(_)
SortById(cs) ==
    IF cs = <<>> THEN <<>>
    ELSE LET front == SortById(SubSeq(cs, 1, Len(cs) - 1))
             last == cs[Len(cs)]
             before == SelectSeq(front, LAMBDA x : x.id <= last.id)
             after == SelectSeq(front, LAMBDA x : x.id > last.id)
         IN before \o <<last>> \o after

\* Curriculum._create_graph raises KeyError on a requisite id no course carries
GraphKeyError(cs) ==
    \E i \in 1..Len(cs) : \E req \in DOMAIN cs[i].requisites :
        \A k \in 1..Len(cs) : cs[k].id # req

\* Curriculum.merge(self, other, match_criteria): the courses of the merged
\* curriculum, or the exception
merge(self, other, criteria) ==
    LET extra == ExtraCourses(self, other, criteria)
        lookup_fails ==
            \E i \in 1..Len(extra) : \E req \in DOMAIN extra[i].requisites :
                course_from_id(other, req).raised
    IN IF lookup_fails THEN [raised |-> TRUE, courses |-> <<>>]
       ELSE LET new_courses ==
                    [i \in 1..Len(extra) |->
                        PatchUp(self, other, extra, criteria, extra[i],
                                SetToSeq(DOMAIN extra[i].requisites), CopyOf(extra[i]))]
                merged_courses == self \o new_courses
            IN IF \/ \E i \in 1..Len(new_courses) : -1 \in DOMAIN new_courses[i].requisites
                  \/ GraphKeyError(merged_courses)
               THEN [raised |-> TRUE, courses |-> merged_courses]
               ELSE [raised |-> FALSE, courses |-> SortById(merged_courses)]

\* c1.merge(c2, name, match_criteria=criteria)
Merge(criteria) ==
    /\ pc = "merge"
    /\ pc' = "merged"
    /\ \E m \in {merge(c1, c2, criteria)} :
        ret' = [op |-> "merge", raised |-> m.raised,
                val |-> [criteria |-> criteria, courses |-> m.courses]]
    /\ UNCHANGED <<requisites, credit_hours, num, system_type, id, c1, c2, cache, graph, binvars>>

\* ------------------------------------------------------- specification: merge
\* two well-formed curricula over the course objects: within each the ids differ
\* and every requisite is a course of the curriculum
InitMerge ==
    /\ requisites = NoRequisites
    /\ credit_hours = [c \in Courses |-> 3]
    /\ num = [c \in Courses |-> c]
    /\ pc = "merge"
    /\ graph = EmptyGraph
    /\ UC = <<>>
    /\ term_courses = <<>>
    /\ term_credits = 0
    /\ terms = <<>>
    /\ cpt = [min |-> 0, max |-> 0]
    /\ system_type = semester
    /\ \E fields \in [Courses -> FieldChoices] :
        /\ id \in MergeIdChoices(fields)
        /\ \E S1, S2 \in SUBSET Courses :
            /\ S1 \cup S2 = Courses
            /\ \A S \in {S1, S2} : \A c, d \in S : c # d => id[c] # id[d]
            /\ \E rel \in RelationsUpTo(MaxPlanReqs) :
                /\ \A t \in rel : \A S \in {S1, S2} : t[1] \in S => t[2] \in S
                /\ c1 = CourseList(S1, fields, id, [c \in Courses |-> DictOf(rel, id, c)])
                /\ c2 = CourseList(S2, fields, id, [c \in Courses |-> DictOf(rel, id, c)])
    /\ cache = NoCache
    /\ ret = NoRet

NextMerge == \E criteria \in CriteriaChoices : Merge(criteria)

SpecMerge == InitMerge /\ [][NextMerge]_vars

\* -------------------------------------------------- Curriculum(name, courses)
\* the subsets of T of at most n elements
RECURSIVE SubsetsUpTo(_, _)
SubsetsUpTo(T, n) ==
    IF n = 0 THEN {{}}
    ELSE LET smaller == SubsetsUpTo(T, n - 1)
         IN smaller \cup {S \cup {t} : S \in smaller, t \in T}

\* the requisites dict of course c holding the keys the relation rel of triples
\* <<course, key, kind>> gives it
DictOfKeys(rel, c) ==
    [k \in {t[2] : t \in {u \in rel : u[1] = c}} |->
        (CHOOSE t \in rel : t[1] = c /\ t[2] = k)[3]]

\* Curriculum._course_vertex: the position of the first course with the id,
\* KeyError when no course carries it
course_vertex(cs, cid) ==
    IF \E k \in 1..Len(cs) : cs[k].id = cid
    THEN [raised |-> FALSE,
          vertex |-> CHOOSE k \in 1..Len(cs) :
                         cs[k].id = cid /\ \A j \in 1..(k - 1) : cs[j].id # cid]
    ELSE [raised |-> TRUE, vertex |-> 0]

\* faulty variant of create_graph: a requisite id no course carries is skipped
create_graph_SkipMissing(cs) ==
    [raised |-> FALSE,
     graph |-> [nodes |-> 1..Len(cs),
                edges |-> {<<course_vertex(cs, p[2]).vertex, p[1]>> : p \in
                    {q \in (1..Len(cs)) \X (0..(NumCourses + 1)) :
                        /\ q[2] \in DOMAIN cs[q[1]].requisites
                        /\ ~course_vertex(cs, q[2]).raised}}]]

\* Curriculum._create_graph on the course list cs: a node per position and an
\* edge from the vertex of every requisite key to the course listing it
create_graph(cs) ==
    IF \E i \in 1..Len(cs) : \E req \in DOMAIN cs[i].requisites :
           course_vertex(cs, req).raised
    THEN [raised |-> TRUE, graph |-> EmptyGraph]
    ELSE [raised |-> FALSE,
          graph |-> [nodes |-> 1..Len(cs),
                     edges |-> {<<course_vertex(cs, p[2]).vertex, p[1]>> : p \in
                         {q \in (1..Len(cs)) \X (0..(NumCourses + 1)) :
                             q[2] \in DOMAIN cs[q[1]].requisites}}]]

\* Curriculum.__init__(name, courses): the courses sorted by id and the graph
NewCurriculum ==
    /\ pc = "courses"
    /\ pc' = "built"
    /\ \E sorted \in {SortById(c1)} : \E g \in {create_graph(sorted)} :
        ret' = IF g.raised THEN Raised("Curriculum")
               ELSE Returned("Curriculum", [courses |-> sorted, graph |-> g.graph])
    /\ UNCHANGED <<requisites, credit_hours, num, system_type, id, c1, c2, cache, graph, binvars>>

\* Curriculum.__init__(name, courses, sort_by_id=False)
NewCurriculumUnsorted ==
    /\ pc = "courses"
    /\ pc' = "built"
    /\ \E g \in {create_graph(c1)} :
        ret' = IF g.raised THEN Raised("Curriculum")
               ELSE Returned("Curriculum", [courses |-> c1, graph |-> g.graph])
    /\ UNCHANGED <<requisites, credit_hours, num, system_type, id, c1, c2, cache, graph, binvars>>

\* ------------------------------------------------ specification: construction
\* a list of courses whose ids may repeat and whose requisite keys may be ids no
\* course of the list carries
InitConstruct ==
    /\ requisites = NoRequisites
    /\ credit_hours = [c \in Courses |-> 3]
    /\ num = [c \in Courses |-> c]
    /\ pc = "courses"
    /\ graph = EmptyGraph
    /\ UC = <<>>
    /\ term_courses = <<>>
    /\ term_credits = 0
    /\ terms = <<>>
    /\ cpt = [min |-> 0, max |-> 0]
    /\ system_type = semester
    /\ id \in [Courses -> Courses]
    /\ \E rel \in SubsetsUpTo(Courses \X (1..(NumCourses + 1)) \X {pre}, MaxPlanReqs) :
        c1 = CourseList(Courses, [c \in Courses |-> [name |-> "X", prefix |-> "", num |-> ""]],
                        id, [c \in Courses |-> DictOfKeys(rel, c)])
    /\ c2 = <<>>
    /\ cache = NoCache
    /\ ret = NoRet

NextConstruct ==
    \/ NewCurriculum
    \/ NewCurriculumUnsorted

SpecConstruct == InitConstruct /\ [][NextConstruct]_vars

\* ------------------------------------------------------- cached metric reads
\* faulty variant of AddRequisiteLater: the graph is rebuilt and the cached values
\* are dropped when a requisite is added
AddRequisiteLater_Rebuild(course, requisite_course, requisite_type, bound) ==
    /\ pc = "live"
    /\ LET reqs == [requisites EXCEPT ![course][requisite_course] = requisite_type]
       IN /\ NumReqs(reqs) <= bound
          /\ requisites' = reqs
          /\ graph' = CreateGraph(reqs)
    /\ cache' = NoCache
    /\ ret' = Returned("add_requisite", "None")
    /\ UNCHANGED <<credit_hours, num, system_type, id, c1, c2, pc, binvars>>

\* AbstractCourse.add_requisite on a course of a curriculum that is already built
AddRequisiteLater(course, requisite_course, requisite_type, bound) ==
    /\ pc = "live"
    /\ LET reqs == [requisites EXCEPT ![course][requisite_course] = requisite_type]
       IN /\ NumReqs(reqs) <= bound
          /\ requisites' = reqs
    /\ ret' = Returned("add_requisite", "None")
    /\ UNCHANGED <<credit_hours, num, system_type, id, c1, c2, cache, pc, graph, binvars>>

\* AbstractCourse.delete_requisite: KeyError when the requisite is not there
DeleteRequisite(course, requisite_course) ==
    /\ pc = "live"
    /\ IF requisites[course][requisite_course] = "none"
       THEN /\ ret' = Raised("delete_requisite")
            /\ UNCHANGED requisites
       ELSE /\ requisites' = [requisites EXCEPT ![course][requisite_course] = "none"]
            /\ ret' = Returned("delete_requisite", "None")
    /\ UNCHANGED <<credit_hours, num, system_type, id, c1, c2, cache, pc, graph, binvars>>

\* functools.cached_property.__get__: the stored value when there is one, else
\* the computed value is stored unless the computation raised
CachedProperty(ch, m, computed) ==
    IF ch[m].set \/ computed.raised THEN ch
    ELSE [ch EXCEPT ![m] = [set |-> TRUE, val |-> computed.per]]

\* what a read of the cached property hands back after the cache was filled
ReadValue(op, ch, m) ==
    IF ch[m].set THEN Returned(op, [per |-> ch[m].val, total |-> SumSeq(ch[m].val)])
    ELSE Raised(op)

\* Curriculum._complexities from the cached delay and blocking factors
ComplexitiesOf(ch, st) ==
    IF ~ch["delay_factors"].set \/ ~ch["blocking_factors"].set
    THEN [raised |-> TRUE, per |-> <<>>]
    ELSE [raised |-> FALSE,
          per |-> [i \in DOMAIN ch["delay_factors"].val |->
              IF st = quarter
              THEN RoundTenths(ch["delay_factors"].val[i] + ch["blocking_factors"].val[i])
              ELSE 10 * (ch["delay_factors"].val[i] + ch["blocking_factors"].val[i])]]

\* the curriculum the constructor handed back is in the caller's hands
Release ==
    /\ pc = "constructed"
    /\ pc' = "live"
    /\ UNCHANGED <<requisites, credit_hours, num, system_type, id, c1, c2, cache, graph, binvars, ret>>

\* curriculum.blocking_factor(c) for every c, and curriculum.total_blocking_factor
ReadBlockingFactor ==
    /\ pc = "live"
    /\ \E ch \in {CachedProperty(cache, "blocking_factors", BlockingFactors(graph))} :
        /\ cache' = ch
        /\ ret' = ReadValue("blocking_factor", ch, "blocking_factors")
    /\ UNCHANGED <<requisites, credit_hours, num, system_type, id, c1, c2, pc, graph, binvars>>

\* curriculum.delay_factor(c) for every c, and curriculum.total_delay_factor
ReadDelayFactor ==
    /\ pc = "live"
    /\ \E ch \in {CachedProperty(cache, "delay_factors", DelayFactors(graph))} :
        /\ cache' = ch
        /\ ret' = ReadValue("delay_factor", ch, "delay_factors")
    /\ UNCHANGED <<requisites, credit_hours, num, system_type, id, c1, c2, pc, graph, binvars>>

\* curriculum.centrality(c) for every c, and curriculum.total_centrality
ReadCentrality ==
    /\ pc = "live"
    /\ \E ch \in {CachedProperty(cache, "centralities", Centralities(graph))} :
        /\ cache' = ch
        /\ ret' = ReadValue("centrality", ch, "centralities")
    /\ UNCHANGED <<requisites, credit_hours, num, system_type, id, c1, c2, pc, graph, binvars>>

\* curriculum.complexity(c) for every c, and curriculum.total_complexity: the
\* delay factors are read first, then the blocking factors
ReadComplexity ==
    /\ pc = "live"
    /\ \E chd \in {CachedProperty(cache, "delay_factors", DelayFactors(graph))} :
       \E chb \in {IF chd["delay_factors"].set
                   THEN CachedProperty(chd, "blocking_factors", BlockingFactors(graph))
                   ELSE chd} :
       \E ch \in {CachedProperty(chb, "complexities", ComplexitiesOf(chb, system_type))} :
        /\ cache' = ch
        /\ ret' = ReadValue("complexity", ch, "complexities")
    /\ UNCHANGED <<requisites, credit_hours, num, system_type, id, c1, c2, pc, graph, binvars>>

\* graph_algs.longest_paths: the paths of all_paths that have the greatest length
longest_paths(g) ==
    IF find_cycle(g) THEN [raised |-> TRUE, per |-> <<>>]
    ELSE LET paths == all_paths(g).paths
             longest == CHOOSE n \in 0..NumCourses :
                            /\ \A k \in 1..Len(paths) : Len(paths[k]) <= n
                            /\ n = 0 \/ \E k \in 1..Len(paths) : Len(paths[k]) = n
         IN [raised |-> FALSE, per |-> SelectSeq(paths, LAMBDA path : Len(path) = longest)]

\* curriculum.longest_paths
ReadLongestPaths ==
    /\ pc = "live"
    /\ \E ch \in {CachedProperty(cache, "longest_paths", longest_paths(graph))} :
        /\ cache' = ch
        /\ ret' = IF ch["longest_paths"].set
                  THEN Returned("longest_paths", [per |-> ch["longest_paths"].val])
                  ELSE Raised("longest_paths")
    /\ UNCHANGED <<requisites, credit_hours, num, system_type, id, c1, c2, pc, graph, binvars>>

\* max(values) and the courses that have it
MaxAndCourses(values) ==
    LET top == CHOOSE x \in Range(values) : \A y \in Range(values) : y <= x
    IN [max |-> top, courses |-> {i \in DOMAIN values : values[i] = top}]

\* Curriculum.basic_metrics from the four cached lists
BasicMetricsOf(ch) ==
    IF \E m \in {"blocking_factors", "delay_factors", "centralities", "complexities"} :
           ~ch[m].set
    THEN [raised |-> TRUE, per |-> <<>>]
    ELSE [raised |-> FALSE,
          per |-> <<MaxAndCourses(ch["blocking_factors"].val),
                    MaxAndCourses(ch["delay_factors"].val),
                    MaxAndCourses(ch["centralities"].val),
                    MaxAndCourses(ch["complexities"].val)>>]

\* curriculum.basic_metrics: the blocking factors are read first, then the delay
\* factors, the centralities and the complexities
ReadBasicMetrics ==
    /\ pc = "live"
    /\ \E chb \in {CachedProperty(cache, "blocking_factors", BlockingFactors(graph))} :
       \E chd \in {IF chb["blocking_factors"].set
                   THEN CachedProperty(chb, "delay_factors", DelayFactors(graph))
                   ELSE chb} :
       \E chc \in {IF chd["delay_factors"].set
                   THEN CachedProperty(chd, "centralities", Centralities(graph))
                   ELSE chd} :
       \E chx \in {IF chc["centralities"].set
                   THEN CachedProperty(chc, "complexities", ComplexitiesOf(chc, system_type))
                   ELSE chc} :
       \E ch \in {CachedProperty(chx, "basic_metrics", BasicMetricsOf(chx))} :
        /\ cache' = ch
        /\ ret' = IF ch["basic_metrics"].set
                  THEN Returned("basic_metrics", [per |-> ch["basic_metrics"].val])
                  ELSE Raised("basic_metrics")
    /\ UNCHANGED <<requisites, credit_hours, num, system_type, id, c1, c2, pc, graph, binvars>>

\* ------------------------------------------------ specification: cached metrics
\* the requisites are those of a course on a course of smaller number
InitCache ==
    /\ requisites = NoRequisites
    /\ credit_hours = [c \in Courses |-> 3]
    /\ num = [c \in Courses |-> c]
    /\ pc = "build"
    /\ graph = EmptyGraph
    /\ UC = <<>>
    /\ term_courses = <<>>
    /\ term_credits = 0
    /\ terms = <<>>
    /\ cpt = [min |-> 0, max |-> 0]
    /\ system_type \in System
    /\ id = [c \in Courses |-> c]
    /\ c1 = <<>>
    /\ c2 = <<>>
    /\ cache = NoCache
    /\ ret = NoRet

NextCache ==
    \/ \E c, r \in Courses : r < c /\ AddRequisite(c, r, pre, MaxPlanReqs)
    \/ Construct
    \/ Release
    \/ \E c, r \in Courses : r < c /\ AddRequisiteLater(c, r, pre, MaxPlanReqs)
    \/ \E c, r \in Courses : r < c /\ DeleteRequisite(c, r)
    \/ ReadBlockingFactor
    \/ ReadDelayFactor
    \/ ReadCentrality
    \/ ReadComplexity
    \/ ReadLongestPaths
    \/ ReadBasicMetrics

SpecCache == InitCache /\ [][NextCache]_vars

\* ------------------------------------------------------------- topological_sort
\* g.neighbors(s) as the list the loop of dfs_visit runs over
NeighborList(g, s) == SetToSeq(Neighbors(g, s))

\* dfs_visit(s) and its loop over the neighbours from position i on; st holds
\* time and the discovery and finish times d and f
RECURSIVE dfs_visit(_, _, _)
RECURSIVE DfsNeighbors(_, _, _, _)
DfsNeighbors(g, ns, i, st) ==
    IF i > Len(ns) THEN st
    ELSE DfsNeighbors(g, ns, i + 1,
             IF st.d[ns[i]] = 0 THEN dfs_visit(g, ns[i], st) ELSE st)

dfs_visit(g, s, st) ==
    LET discovered == [st EXCEPT !.time = @ + 1, !.d[s] = st.time + 1]
        visited == DfsNeighbors(g, NeighborList(g, s), 1, discovered)
    IN [visited EXCEPT !.time = @ + 1, !.f[s] = visited.time + 1]

\* lines 54-78: the loop of dfs over g.nodes from position i on
RECURSIVE DfsLoop(_, _, _, _)
DfsLoop(g, nodes, i, st) ==
    IF i > Len(nodes) THEN st
    ELSE DfsLoop(g, nodes, i + 1,
             IF st.d[nodes[i]] = 0 THEN dfs_visit(g, nodes[i], st) ELSE st)

\* dfs(g): the discovery and finish times
dfs(g) ==
    DfsLoop(g, SetToSeq(g.nodes), 1,
            [time |-> 0, d |-> [v \in g.nodes |-> 0], f |-> [v \in g.nodes |-> 0]])

\* a list sorted by an integer key, stably, by insertion
RECURSIVE SortedBy(_, _)
SortedBy(s, key) ==
    IF s = <<>> THEN <<>>
    ELSE LET front == SortedBy(SubSeq(s, 1, Len(s) - 1), key)
             last == s[Len(s)]
         IN SelectSeq(front, LAMBDA x : key[x] <= key[last]) \o <<last>> \o
            SelectSeq(front, LAMBDA x : key[x] > key[last])

\* networkx.weakly_connected_components as lists: a component for every node not
\* seen yet, in the order of g.nodes; list(s) of a set of vertices below 8 runs
\* in ascending order
RECURSIVE ComponentsLoop(_, _, _, _)
ComponentsLoop(g, nodes, i, wcc) ==
    IF i > Len(nodes) THEN wcc
    ELSE ComponentsLoop(g, nodes, i + 1,
             IF \E k \in 1..Len(wcc) : Contains(wcc[k], nodes[i]) THEN wcc
             ELSE Append(wcc, SetToSeq(WeakComponent(g, nodes[i]))))

\* wcc.sort(key=lambda x: (sign * len(x), x[0])): the components are lists of
\* graph vertices still in the order of list(s)
SortComponents(wcc, sign) ==
    LET key == [k \in 1..Len(wcc) |-> sign * Len(wcc[k]) * (NumVertices + 9) + wcc[k][1]]
        order == SortedBy([k \in 1..Len(wcc) |-> k], key)
    IN [k \in 1..Len(wcc) |-> wcc[order[k]]]

\* topological_sort(g, sort): the components are sorted by size first and each
\* is put in descending order of the finish times afterwards
topological_sort(g, sort) ==
    LET f == dfs(g).f
        wcc == ComponentsLoop(g, SetToSeq(g.nodes), 1, <<>>)
        sorted == IF sort = "descending" THEN SortComponents(wcc, -1)
                  ELSE IF sort = "ascending" THEN SortComponents(wcc, 1)
                  ELSE wcc
    IN [k \in 1..Len(sorted) |-> SortedBy(sorted[k], [v \in g.nodes |-> 0 - f[v]])]

\* topological_sort(g, sort=sort)
TopologicalSort(sort) ==
    /\ pc = "graph"
    /\ pc' = "analysed"
    /\ ret' = Returned("topological_sort", [sort |-> sort, wcc |-> topological_sort(graph, sort)])
    /\ UNCHANGED <<requisites, credit_hours, num, system_type, id, c1, c2, cache, graph, binvars>>

\* test_graph_algs: the 12-vertex graph with 5 components
Worked12Graph ==
    [nodes |-> 1..12,
     edges |-> {<<2, 3>>, <<2, 5>>, <<2, 6>>, <<4, 2>>, <<6, 10>>, <<7, 8>>, <<7, 11>>}]

\* the graphs on NumVertices vertices with at most MaxTopoEdges edges
TopoGraphs ==
    {[nodes |-> 1..NumVertices, edges |-> E] :
        E \in SubsetsUpTo({e \in (1..NumVertices) \X (1..NumVertices) : e[1] # e[2]},
                          MaxTopoEdges)}

\* --------------------------------------------- specification: topological sort
InitTopo ==
    /\ requisites = NoRequisites
    /\ credit_hours = [c \in Courses |-> 3]
    /\ num = [c \in Courses |-> c]
    /\ pc = "graph"
    /\ graph \in TopoGraphs
    /\ UC = <<>>
    /\ term_courses = <<>>
    /\ term_credits = 0
    /\ terms = <<>>
    /\ cpt = [min |-> 0, max |-> 0]
    /\ system_type = semester
    /\ id = [c \in Courses |-> c]
    /\ c1 = <<>>
    /\ c2 = <<>>
    /\ cache = NoCache
    /\ ret = NoRet

NextTopo == \E sort \in {"", "ascending", "descending"} : TopologicalSort(sort)

SpecTopo == InitTopo /\ [][NextTopo]_vars

\* ------------------------------------------- reachable_from: the calls it makes
\* gad(g): g.reverse(), every edge turned round
gad(g) == [nodes |-> g.nodes, edges |-> {<<e[2], e[1]>> : e \in g.edges}]

\* reachable_from(g, s, vlist) with its calls recorded: `calls` holds the argument s
\* of every call in the order the calls are entered, so a vertex stands in it once
\* for every time its neighbours are traversed.  Each neighbour v is appended to
\* vlist when it is new, and reachable_from(g, v, vlist) is called for it whether
\* it was new or not.  The result is [raised, vlist, calls].
RECURSIVE ReachableFromCalls(_, _, _, _, _)
ReachableFromCalls(g, ns, i, acc, depth) ==
    IF acc.raised \/ i > Len(ns) THEN acc
    ELSE LET v == ns[i]
             vlist == IF Contains(acc.vlist, v) THEN acc.vlist ELSE Append(acc.vlist, v)
             calls == Append(acc.calls, v)
         IN IF depth + 1 > Cardinality(g.nodes)
            THEN [raised |-> TRUE, vlist |-> vlist, calls |-> calls]
            ELSE ReachableFromCalls(g, ns, i + 1,
                     ReachableFromCalls(g, SetToSeq(Neighbors(g, v)), 1,
                         [raised |-> FALSE, vlist |-> vlist, calls |-> calls], depth + 1),
                     depth)

reachable_from_calls(g, s) ==
    ReachableFromCalls(g, SetToSeq(Neighbors(g, s)), 1,
                       [raised |-> FALSE, vlist |-> <<>>, calls |-> <<s>>], 1)

\* reachable_to(g, t): reachable_from on the transpose
reachable_to_calls(g, t) == reachable_from_calls(gad(g), t)

\* reachable_from(curriculum.graph, s), its calls observed
ReachableFromTraced(s) ==
    /\ pc = "constructed"
    /\ pc' = "analysed"
    /\ \E rf \in {reachable_from_calls(graph, s)} :
        ret' = IF rf.raised THEN Raised("reachable_from")
               ELSE Returned("reachable_from", [s |-> s, vlist |-> rf.vlist, calls |-> rf.calls])
    /\ UNCHANGED <<requisites, credit_hours, num, system_type, id, c1, c2, cache, graph, binvars>>

\* reachable_to(curriculum.graph, t), its calls observed
ReachableToTraced(t) ==
    /\ pc = "constructed"
    /\ pc' = "analysed"
    /\ \E rt \in {reachable_to_calls(graph, t)} :
        ret' = IF rt.raised THEN Raised("reachable_to")
               ELSE Returned("reachable_to", [s |-> t, vlist |-> rt.vlist, calls |-> rt.calls])
    /\ UNCHANGED <<requisites, credit_hours, num, system_type, id, c1, c2, cache, graph, binvars>>

NextReach ==
    \/ \E c, r \in Courses : c # r /\ AddRequisite(c, r, pre, MaxReqs)
    \/ Construct
    \/ \E s \in graph.nodes : ReachableFromTraced(s)
    \/ \E t \in graph.nodes : ReachableToTraced(t)

SpecReach == InitCurric /\ [][NextReach]_vars

\* ------------------------------- specification: degree plans, strict co-requisites
\* the plans of a curriculum whose requisites are prerequisites or strict
\* co-requisites
StrictPlanKinds == {pre, strict_co}

NextStrictPlan ==
    \/ \E c, r \in Courses : \E k \in StrictPlanKinds :
        c # r /\ AddRequisite(c, r, k, MaxPlanReqs)
    \/ Construct
    \/ \E place \in [Courses -> PlaceChoices] : NewDegreePlan(place)
    \/ PlanIsValid

SpecStrictPlan == InitPlan /\ [][NextStrictPlan]_vars

\* ------------------------------- extraneous_requisites of a curriculum as built
\* lines 391-402, on the course list cs and graph g of a curriculum: (u, v) is kept
\* when a neighbour of u with a path to v has u as a co or strict_co requisite
RemoveRequisiteOf(cs, g, u, v) ==
    \A neighbor \in Neighbors(g, u) :
        has_path(g, neighbor, v) =>
            cs[neighbor].requisites[cs[u].id] \notin {co, strict_co}

\* lines 380-409: every vertex x taken from the queue puts its neighbours on it,
\* and (u, v) is redundant when x -> v and u -> v are edges and (u, v) is not kept
RECURSIVE ExtraneousSearchOf(_, _, _, _, _)
ExtraneousSearchOf(cs, g, u, queue, redundant_reqs) ==
    IF queue = <<>> THEN redundant_reqs
    ELSE LET x == Head(queue)
         IN ExtraneousSearchOf(cs, g, u, Tail(queue) \o SetToSeq(Neighbors(g, x)),
                redundant_reqs \cup
                    {<<u, v>> : v \in {w \in Neighbors(g, x) :
                                        <<u, w>> \in g.edges /\ RemoveRequisiteOf(cs, g, u, w)}})

\* faulty variant of ExtraneousStart: the search from u starts at u itself
ExtraneousStart_AtSelf(g, u) == <<u>>

\* lines 376-379: the queue the search from u starts with, the neighbours of u
ExtraneousStart(g, u) == SetToSeq(Neighbors(g, u))

\* lines 361-415: ValueError on a graph with a cycle, else the redundant pairs
\* found from every vertex of a component of more than one vertex
extraneous_requisites_of(cs, g) ==
    IF find_cycle(g) THEN Raised("extraneous_requisites")
    ELSE Returned("extraneous_requisites",
             UNION {ExtraneousSearchOf(cs, g, u, ExtraneousStart(g, u), {}) :
                      u \in {v \in g.nodes : Cardinality(WeakComponent(g, v)) > 1}})

\* curriculum.extraneous_requisites() on the curriculum just built
ExtraneousRequisitesBuilt ==
    /\ pc = "built"
    /\ ret.op = "Curriculum" /\ ~ret.raised
    /\ pc' = "analysed"
    /\ c2' = ret.val.courses
    /\ graph' = ret.val.graph
    /\ ret' = extraneous_requisites_of(ret.val.courses, ret.val.graph)
    /\ UNCHANGED <<requisites, credit_hours, num, system_type, id, c1, cache, binvars>>

\* ------------------------------------- specification: extraneous requisites, larger
\* curricula of one course more than Courses, with ids 1, 2, ...; a requisite of a
\* course has a smaller id than the course, so no curriculum has a cycle
ReduceCourses == 1..(NumCourses + 1)

\* the requisites dict of course c: kind[<<c, r>>] tells what c lists for course r,
\* "none" for no requisite, pre, or "soft" for a requisite that may be taken in the
\* same term, which is co in the courses of odd id and strict_co in the others
ReduceDict(kind, c) ==
    [r \in {q \in ReduceCourses : q < c /\ kind[<<c, q>>] # "none"} |->
        IF kind[<<c, r>>] = pre THEN pre
        ELSE IF c % 2 = 1 THEN co ELSE strict_co]

InitReduce ==
    /\ requisites = NoRequisites
    /\ credit_hours = [c \in Courses |-> 3]
    /\ num = [c \in Courses |-> c]
    /\ pc = "courses"
    /\ graph = EmptyGraph
    /\ UC = <<>>
    /\ term_courses = <<>>
    /\ term_credits = 0
    /\ terms = <<>>
    /\ cpt = [min |-> 0, max |-> 0]
    /\ system_type = semester
    /\ id = [c \in Courses |-> c]
    /\ \E kind \in [{p \in ReduceCourses \X ReduceCourses : p[2] < p[1]} -> {"none", pre, "soft"}] :
        c1 = CourseList(ReduceCourses,
                        [c \in ReduceCourses |-> [name |-> "X", prefix |-> "", num |-> ""]],
                        [c \in ReduceCourses |-> c],
                        [c \in ReduceCourses |-> ReduceDict(kind, c)])
    /\ c2 = <<>>
    /\ cache = NoCache
    /\ ret = NoRet

NextReduce ==
    \/ NewCurriculum
    \/ ExtraneousRequisitesBuilt

SpecReduce == InitReduce /\ [][NextReduce]_vars

\* ------------------------------------------------------- claims: bin filling
\* the term (position in the returned list) a course was put in, 0 if in none
TermOf(ts, c) ==
    IF \E i \in 1..Len(ts) : Contains(ts[i], c)
    THEN CHOOSE i \in 1..Len(ts) : Contains(ts[i], c)
    ELSE 0

\* C1: whenever bin_filling returns a list of terms, the DegreePlan built from it
\* and the curriculum satisfies DegreePlan.is_valid.
C1_BinFillingPlanIsValid ==
    ret.op = "plan.is_valid" => ret.val = TRUE

\* C2: in the returned list every term's credit total lies in [min_cpt, max_cpt],
\* except a term made of a single course whose own credit hours exceed max_cpt.
C2_TermCreditsWithinBounds ==
    pc = "returned" =>
        \A i \in 1..Len(terms) :
            \/ /\ cpt.min <= TermCredits(terms[i])
               /\ TermCredits(terms[i]) <= cpt.max
            \/ /\ Len(terms[i]) = 1
               /\ credit_hours[terms[i][1]] > cpt.max

\* C3: in the returned list every course with a strict_co requisite r is in the
\* term r is in.
C3_StrictCoSameTerm ==
    pc = "returned" =>
        \A c, r \in Courses :
            requisites[c][r] = strict_co => TermOf(terms, c) = TermOf(terms, r)

\* a requisite of kind k from r to c is met when r is placed at term tr and c at tc
RequisiteMet(k, tr, tc) ==
    CASE k = pre -> tr < tc
      [] k = co -> tr <= tc
      [] k = strict_co -> tr = tc
      [] OTHER -> TRUE

\* some assignment of every course to a term meets all requisites and keeps each
\* used term's credits in [min_cpt, max_cpt] (a term of one course above max_cpt
\* being let through, as in C2)
Feasible(min_cpt, max_cpt) ==
    \E f \in [Courses -> 1..NumCourses] :
        /\ \A c, r \in Courses : RequisiteMet(requisites[c][r], f[r], f[c])
        /\ \A t \in {f[c] : c \in Courses} :
            LET members == {c \in Courses : f[c] = t}
                total == SumSeq([i \in 1..Cardinality(members) |->
                                    credit_hours[SetToSeq(members)[i]]])
            IN \/ min_cpt <= total /\ total <= max_cpt
               \/ Cardinality(members) = 1 /\ total > max_cpt

\* C4: when no assignment of the courses to terms satisfies the bounds, bin_filling
\* returns False and create_degree_plan returns None.
C4_FailureValueWhenInfeasible ==
    ~Feasible(cpt.min, cpt.max) =>
        /\ pc = "returned" => ret.val = "False"
        /\ pc = "planned" /\ ret.op = "create_degree_plan" => ret.val = "None"

\* ------------------------------------------------ claims: curriculum analytics
\* the graph has a directed cycle: some vertex is reached from itself
Cyclic(g) == \E v \in g.nodes : v \in Closure(g, Neighbors(g, v))

\* the curriculum graph with an edge course -> requisite added for every
\* strict_co requisite
WithStrictCoReversed(g, reqs) ==
    [g EXCEPT !.edges = @ \cup
        {<<CourseVertex(c), CourseVertex(r)>> : <<c, r>> \in
            {p \in Courses \X Courses : reqs[p[1]][p[2]] = strict_co}}]

\* a simple cycle of length 1, or of length 3 or more: a self-loop, or an edge
\* u -> v whose head v leads back to u without the edge v -> u
HasSimpleCycleNotOfLength2(g) ==
    \/ \E v \in g.nodes : <<v, v>> \in g.edges
    \/ \E e \in g.edges :
        /\ e[1] # e[2]
        /\ e[1] \in Descendants([g EXCEPT !.edges = @ \ {<<e[2], e[1]>>}], e[2])

\* C5: Curriculum.is_valid returns False iff the requisite graph has a directed
\* cycle of any length, or the graph with the strict_co edges reversed as well
\* has a simple cycle whose length is not 2.
C5_IsValidIffNoBadCycle ==
    ret.op = "is_valid" =>
        (ret.val = FALSE <=>
            \/ Cyclic(graph)
            \/ HasSimpleCycleNotOfLength2(WithStrictCoReversed(graph, requisites)))

\* is_valid has returned False on a curriculum whose requisite graph is acyclic:
\* a strict_co requisite that cannot be satisfied
C5_Witness ==
    /\ ret.op = "is_valid"
    /\ ret.val = FALSE
    /\ ~Cyclic(graph)

PathAnalyses == {"all_paths", "blocking_factor", "delay_factor", "centrality",
                 "extraneous_requisites"}

SourceSinkPaths(g) ==
    {p \in UNION {[1..k -> g.nodes] : k \in 2..Cardinality(g.nodes)} :
        /\ InDegree(g, p[1]) = 0
        /\ OutDegree(g, p[Len(p)]) = 0
        /\ p[1] # p[Len(p)]
        /\ \A i \in 1..(Len(p) - 1) : <<p[i], p[i + 1]>> \in g.edges}

NoDuplicates(s) == \A i, j \in 1..Len(s) : i # j => s[i] # s[j]

\* C7: on an acyclic graph all_paths returns exactly the source-to-sink paths,
\* each with at least 2 vertices and each once.
C7_AllPathsExact ==
    (ret.op = "all_paths" /\ ~Cyclic(graph)) =>
        /\ ~ret.raised
        /\ Range(ret.val) = SourceSinkPaths(graph)
        /\ NoDuplicates(ret.val)
        /\ \A i \in 1..Len(ret.val) : Len(ret.val[i]) >= 2

\* all_paths has returned paths that branch: two of them end in the same sink
\* and one has an inner vertex
C7_Witness ==
    /\ ret.op = "all_paths"
    /\ ~ret.raised
    /\ \E i, j \in 1..Len(ret.val) :
        /\ i # j
        /\ ret.val[i][Len(ret.val[i])] = ret.val[j][Len(ret.val[j])]
        /\ Len(ret.val[i]) > 2

RECURSIVE SumOver(_, _)
SumOver(S, f) ==
    IF S = {} THEN 0
    ELSE LET x == CHOOSE y \in S : TRUE
         IN f[x] + SumOver(S \ {x}, f)

Worked8BlockingFactors == MetricValue("blocking_factor", BlockingFactors(Worked8Graph)).val

\* C8: on an acyclic graph blocking_factor(c) is the number of courses other than
\* c reached from c, reachable_from lists each of them once and never c, and
\* total_blocking_factor is the sum over the courses (8 for the 8-course worked
\* curriculum).
C8_BlockingFactorCountsDescendants ==
    /\ (ret.op = "reachable_from" /\ ~Cyclic(graph)) =>
        /\ ~ret.raised
        /\ Range(ret.val.vlist) = Descendants(graph, ret.val.s)
        /\ NoDuplicates(ret.val.vlist)
        /\ ~Contains(ret.val.vlist, ret.val.s)
    /\ (ret.op = "blocking_factor" /\ ~Cyclic(graph)) =>
        /\ ~ret.raised
        /\ \A c \in graph.nodes :
            ret.val.per[c] = Cardinality(Descendants(graph, c) \ {c})
        /\ ret.val.total =
            Cardinality({p \in graph.nodes \X graph.nodes : p[2] \in Descendants(graph, p[1])})
    /\ Worked8BlockingFactors = [per |-> <<2, 2, 1, 3, 0, 0, 0, 0>>, total |-> 8]

\* a blocking factor was read where a course reaches another one along two ways
C8_Witness ==
    /\ ret.op = "blocking_factor"
    /\ ~ret.raised
    /\ \E a, b, c \in graph.nodes :
        /\ {<<a, b>>, <<b, c>>, <<a, c>>} \subseteq graph.edges
        /\ ret.val.per[a] = 2

\* the longest chain of edges leaving v / leading into v, in an acyclic graph
RECURSIVE LongestOut(_, _)
LongestOut(g, v) ==
    IF Neighbors(g, v) = {} THEN 0
    ELSE 1 + (CHOOSE m \in {LongestOut(g, w) : w \in Neighbors(g, v)} :
                \A k \in {LongestOut(g, w) : w \in Neighbors(g, v)} : k <= m)

RECURSIVE LongestIn(_, _)
LongestIn(g, v) ==
    IF InNeighbors(g, v) = {} THEN 0
    ELSE 1 + (CHOOSE m \in {LongestIn(g, w) : w \in InNeighbors(g, v)} :
                \A k \in {LongestIn(g, w) : w \in InNeighbors(g, v)} : k <= m)

WorkedDiamondDelayFactors == MetricValue("delay_factor", DelayFactors(WorkedDiamondGraph)).val

\* C9: on an acyclic graph delay_factor(c) is the vertex count of the longest
\* source-to-sink path through c, that is 1 + the longest chain into c + the
\* longest chain out of c; it is 1 for a course without requisite edges, and
\* total_delay_factor is the sum over the courses (3 for each course of the
\* 4-course diamond, 12 in total).
C9_DelayFactorLongestPath ==
    /\ (ret.op = "delay_factor" /\ ~Cyclic(graph)) =>
        /\ ~ret.raised
        /\ \A c \in graph.nodes :
            /\ ret.val.per[c] = 1 + LongestIn(graph, c) + LongestOut(graph, c)
            /\ LET through == {p \in SourceSinkPaths(graph) : Contains(p, c)}
               IN IF through = {} THEN ret.val.per[c] = 1
                  ELSE /\ \E p \in through : Len(p) = ret.val.per[c]
                       /\ \A p \in through : Len(p) <= ret.val.per[c]
            /\ (Neighbors(graph, c) = {} /\ InNeighbors(graph, c) = {}) => ret.val.per[c] = 1
        /\ ret.val.total =
            SumOver(graph.nodes,
                    [c \in graph.nodes |-> 1 + LongestIn(graph, c) + LongestOut(graph, c)])
    /\ WorkedDiamondDelayFactors = [per |-> <<3, 3, 3, 3>>, total |-> 12]

\* delay factors were read where a course starts a path of 3 vertices and a
\* shorter path of 2 to the same sink, and its delay factor is the longer one
C9_Witness ==
    /\ ret.op = "delay_factor"
    /\ ~ret.raised
    /\ \E a, b, c \in graph.nodes :
        /\ {<<a, b>>, <<b, c>>, <<a, c>>} \subseteq graph.edges
        /\ ret.val.per[a] = 3
        /\ ret.val.total = 9

\* what centrality(c) is claimed to be: the vertex counts of the source-to-sink
\* paths of more than 2 vertices that hold c strictly inside, summed
InnerPathsSum(g, c) ==
    LET inner == {p \in SourceSinkPaths(g) :
                    Len(p) > 2 /\ \E k \in 2..(Len(p) - 1) : p[k] = c}
    IN SumOver(inner, [p \in inner |-> Len(p)])

Worked8Centralities == MetricValue("centrality", Centralities(Worked8Graph)).val

Worked7Centralities == MetricValue("centrality", Centralities(Worked7Graph)).val

\* C10: on an acyclic graph centrality(c) is the sum of the vertex counts of the
\* source-to-sink paths of more than 2 vertices with c at an inner position, and
\* total_centrality is the sum over the courses; in the 8-course worked curriculum
\* only the third course is non-zero, with 9.
C10_CentralityInnerPaths ==
    /\ (ret.op = "centrality" /\ ~Cyclic(graph)) =>
        /\ ~ret.raised
        /\ \A c \in graph.nodes : ret.val.per[c] = InnerPathsSum(graph, c)
        /\ ret.val.total =
            SumOver(graph.nodes, [c \in graph.nodes |-> InnerPathsSum(graph, c)])
    /\ Worked8Centralities = [per |-> <<0, 0, 9, 0, 0, 0, 0, 0>>, total |-> 9]
    /\ Worked7Centralities = [per |-> <<0, 9, 12, 18, 0, 0, 10>>, total |-> 49]

\* centralities were read where a course is inside a path of 3 vertices whose
\* ends are also joined by a path of 2, which counts for nobody
C10_Witness ==
    /\ ret.op = "centrality"
    /\ ~ret.raised
    /\ \E a, b, c \in graph.nodes :
        /\ {<<a, b>>, <<b, c>>, <<a, c>>} \subseteq graph.edges
        /\ ret.val.per[b] = 3
        /\ ret.val.per[a] = 0
        /\ ret.val.total = 3

\* ---------------------------------------------------------- claims: complexity
Worked8Complexities == MetricValue("complexity", Complexities(Worked8Graph, semester)).val

\* C11: in a semester curriculum complexity(c) = delay_factor(c) + blocking_factor(c)
\* and total_complexity = total_delay_factor + total_blocking_factor; in a quarter
\* curriculum complexity(c) is (delay_factor(c) + blocking_factor(c)) * 2/3 rounded
\* to one decimal place and total_complexity is the sum of the rounded values.
\* (Values in tenths; the 8-course worked curriculum has 27.0.)
C11_ComplexityRounding ==
    /\ (ret.op = "complexity" /\ ~Cyclic(graph)) =>
        /\ ~ret.raised
        /\ LET df == DelayFactors(graph).per
               bf == BlockingFactors(graph).per
           IN /\ system_type = semester =>
                  /\ \A c \in graph.nodes : ret.val.per[c] = 10 * (df[c] + bf[c])
                  /\ ret.val.total = 10 * (SumSeq(df) + SumSeq(bf))
              /\ system_type = quarter =>
                  /\ \A c \in graph.nodes :
                      \* |per/10 - (df + bf) * 2/3| < 1/20
                      /\ 3 * ret.val.per[c] - 20 * (df[c] + bf[c]) \in {-1, 0, 1}
                  /\ ret.val.total = SumOver(graph.nodes, ret.val.per)
    /\ Worked8Complexities = [per |-> <<50, 50, 40, 60, 30, 20, 10, 10>>, total |-> 270]

\* a quarter curriculum's complexities were read where a course with requisite
\* edges has a value that had to be rounded (1.3 or 2.7)
C11_Witness ==
    /\ ret.op = "complexity"
    /\ ~ret.raised
    /\ system_type = quarter
    /\ graph.edges # {}
    /\ \E c \in graph.nodes : ret.val.per[c] \in {13, 27}

\* ------------------------------------------------ claims: extraneous requisites
\* v is reached from u along at least two edges
ReachedByTwoOrMore(g, u, v) == \E n \in Neighbors(g, u) : v \in Closure(g, Neighbors(g, n))

\* the kind of the requisite edge u -> n: what course n lists for course u
KindOfEdge(reqs, u, n) == reqs[courses[n]][courses[u]]

\* C12: on an acyclic curriculum extraneous_requisites returns exactly the pairs
\* (u, v) where u -> v is an edge, v is also reached from u along at least two
\* edges, and no direct successor n of u with a path to v (n = v included) has
\* u as a co or strict_co requisite.
C12_ExtraneousExactSet ==
    (ret.op = "extraneous_requisites" /\ ~Cyclic(graph)) =>
        /\ ~ret.raised
        /\ ret.val =
            {e \in graph.edges :
                /\ ReachedByTwoOrMore(graph, e[1], e[2])
                /\ \A n \in Neighbors(graph, e[1]) :
                    e[2] \in Closure(graph, {n}) =>
                        KindOfEdge(requisites, e[1], n) \notin {co, strict_co}}

\* extraneous_requisites has returned a pair
C12_Witness ==
    /\ ret.op = "extraneous_requisites"
    /\ ~ret.raised
    /\ ret.val # {}
    /\ \E e \in ret.val : \E n \in graph.nodes : {<<e[1], n>>, <<n, e[2]>>} \subseteq graph.edges

\* extraneous_requisites has kept a shortcut u -> v because the first edge of the
\* longer way is a co requisite
C12_WitnessKept ==
    /\ ret.op = "extraneous_requisites"
    /\ ~ret.raised
    /\ ret.val = {}
    /\ \E u, n, v \in graph.nodes :
        /\ {<<u, n>>, <<n, v>>, <<u, v>>} \subseteq graph.edges
        /\ KindOfEdge(requisites, u, n) = co
        /\ KindOfEdge(requisites, u, v) = pre

\* ------------------------------------------------ claims: degree plan validity
\* the terms of ts that hold course c, and how often ts holds c
TermsOf(ts, c) == {i \in 1..Len(ts) : Contains(ts[i], c)}

Occurrences(ts, c) ==
    Cardinality({p \in (1..Len(ts)) \X (1..NumCourses) : p[2] <= Len(ts[p[1]]) /\ ts[p[1]][p[2]] = c})

WorkedPlanDistances ==
    [c \in 1..6 |-> requisite_distance(WorkedPlanRequisites, WorkedPlanTerms, c).val]

\* the position of the first term of ts that holds c
FirstTermOf(ts, c) == CHOOSE i \in TermsOf(ts, c) : \A j \in TermsOf(ts, c) : i <= j

\* C14: in a plan that places a course and all its requisites,
\* requisite_distance(course) is the sum over the requisites r of (term of course
\* - term of r), and total_requisite_distance is the sum of requisite_distance
\* over the courses (worked plan: 0, 0, 1, 0, 5, 2 and 8 in total).
C14_RequisiteDistanceSum ==
    /\ ret.op = "requisite_distance" =>
        /\ \A c \in Courses :
            LET reqsOf == {r \in Courses : requisites[c][r] # "none"}
            IN (\A x \in reqsOf \cup {c} : TermsOf(terms, x) # {}) =>
                /\ ~ret.val.per[c].raised
                /\ ret.val.per[c].val =
                    SumOver(reqsOf, [r \in reqsOf |-> FirstTermOf(terms, c) - FirstTermOf(terms, r)])
        /\ (\A c \in Courses : ~ret.val.per[c].raised) =>
            /\ ~ret.val.total.raised
            /\ ret.val.total.val = SumOver(Courses, [c \in Courses |-> ret.val.per[c].val])
    /\ WorkedPlanDistances = <<0, 0, 1, 0, 5, 2>>
    /\ total_requisite_distance(WorkedPlanRequisites, WorkedPlanTerms) = [raised |-> FALSE, val |-> 8]

\* requisite distances were read on a plan where a course has two requisites, one
\* a term earlier and one two terms earlier
C14_Witness ==
    /\ ret.op = "requisite_distance"
    /\ \E c, r1, r2 \in Courses :
        /\ r1 # r2
        /\ requisites[c][r1] # "none" /\ requisites[c][r2] # "none"
        /\ TermsOf(terms, c) = {3} /\ TermsOf(terms, r1) = {2} /\ TermsOf(terms, r2) = {1}
        /\ ret.val.per[c] = [raised |-> FALSE, val |-> 3]
        /\ ret.val.total = [raised |-> FALSE, val |-> 3]

\* ------------------------------------------------------ claims: graph algorithms
\* C15: on an acyclic graph longest_path(g, s) returns a directed path of g that
\* starts at s and has as many vertices as the longest directed path from s.
C15_LongestPathIsLongest ==
    (ret.op = "longest_path" /\ ~Cyclic(graph)) =>
        /\ ~ret.raised
        /\ ret.val.path # <<>>
        /\ ret.val.path[1] = ret.val.s
        /\ \A i \in 1..(Len(ret.val.path) - 1) :
            <<ret.val.path[i], ret.val.path[i + 1]>> \in graph.edges
        /\ Len(ret.val.path) = 1 + LongestOut(graph, ret.val.s)

\* C16: edge_crossings(g, S) is the number of edges of g with exactly one endpoint
\* in S, the edges that enter S counted like the edges that leave it.
C16_EdgeCrossingsBothWays ==
    ret.op = "edge_crossings" =>
        ret.val.total =
            Cardinality({e \in graph.edges : (e[1] \in Range(ret.val.s)) # (e[2] \in Range(ret.val.s))})

\* ------------------------------------------------ claims: knowledge transfer
\* the vertices of the courses placed in the terms 1..i of ts
PlacedUpTo(ts, i) == {CourseVertex(c) : c \in UNION {Range(ts[j]) : j \in 1..i}}

\* the requisite edges with exactly one endpoint in the vertex set S
CutEdges(g, S) == {e \in g.edges : (e[1] \in S) # (e[2] \in S)}

\* C17: for a plan of n terms knowledge_transfer returns n - 1 values, the i-th
\* being the number of requisite edges with exactly one endpoint among the courses
\* of the terms 1..i, and the dropped n-th value is 0.
C17_KnowledgeTransferCuts ==
    ret.op = "knowledge_transfer" =>
        /\ ~ret.raised
        /\ Len(ret.val.values) = Len(terms) - 1
        /\ \A i \in 1..(Len(terms) - 1) :
            ret.val.values[i] = Cardinality(CutEdges(graph, PlacedUpTo(terms, i)))
        /\ ret.val.dropped = 0

\* ---------------------------------------------------------- claims: similarity
\* course b of c2 is present in the curriculum cs
PresentIn(b, cs, strict) ==
    \E k \in 1..Len(cs) :
        IF strict THEN cs[k].obj = b.obj
        ELSE \/ b.name # "" /\ cs[k].name = b.name
             \/ b.prefix # "" /\ b.num # "" /\ cs[k].prefix = b.prefix /\ cs[k].num = b.num

\* C18: for a non-empty c2, c1.similarity(c2, strict) is the number of c2's
\* courses that are present in c1 divided by the number of c2's courses, a value
\* between 0 and 1.
C18_SimilarityFraction ==
    (ret.op = "similarity" /\ Len(c2) > 0) =>
        /\ ~ret.raised
        /\ ret.val.of = Len(c2)
        /\ ret.val.matches =
            Cardinality({j \in 1..Len(c2) : PresentIn(c2[j], c1, ret.val.strict)})
        /\ ret.val.matches <= ret.val.of

\* the failing input of C18: two courses of c1 named alike, one such course in c2
C18_FailingInput ==
    /\ ret.op = "similarity"
    /\ ~ret.raised
    /\ ~ret.val.strict
    /\ Len(c1) = 2 /\ Len(c2) = 1
    /\ c1[1].name = "X" /\ c1[2].name = "X" /\ c2[1].name = "X"
    /\ c2[1].obj \notin {c1[1].obj, c1[2].obj}
    /\ ret.val.matches = 2 /\ ret.val.of = 1

\* with strict = True the quotient is the claimed fraction
C18_StrictHolds ==
    (ret.op = "similarity" /\ ~ret.raised /\ ret.val.strict) =>
        /\ ret.val.matches =
            Cardinality({j \in 1..Len(c2) : PresentIn(c2[j], c1, TRUE)})
        /\ ret.val.matches <= ret.val.of

\* ---------------------------------------------------------- claims: convert_ids
\* in the curriculum cs, the course at position b has the course at position a
\* as a requisite of kind k
HasRequisite(cs, b, a, k) ==
    /\ cs[a].id \in DOMAIN cs[b].requisites
    /\ cs[b].requisites[cs[a].id] = k

\* C20: after convert_ids every course's id is its default id, and a course b has
\* a course a as a requisite of kind k after the call iff it had before the call.
C20_ConvertIdsPreserves ==
    ret.op = "convert_ids" =>
        /\ \A i \in 1..Len(c1) : c1[i].id = default_id(c1[i])
        /\ \A a, b \in 1..Len(c1) : \A k \in {pre, co} :
            HasRequisite(c1, b, a, k) <=> HasRequisite(c2, b, a, k)

\* the failing input of C20: courses 1 and 2 carry the same fields and the ids 1
\* and 2 of a CSV file, course 3 has course 1 as a prerequisite only
C20_FailingInput ==
    /\ ret.op = "convert_ids"
    /\ c2[1].id = 1 /\ c2[2].id = 2 /\ c2[3].id = 3
    /\ c2[1].name = "X" /\ c2[2].name = "X" /\ c2[3].name = "Y"
    /\ c2[1].requisites = <<>> /\ c2[2].requisites = <<>>
    /\ DOMAIN c2[3].requisites = {1} /\ c2[3].requisites[1] = pre
    /\ ~HasRequisite(c2, 3, 2, pre)
    /\ HasRequisite(c1, 3, 2, pre)

\* between courses whose default ids differ the relation is kept
C20_DistinctHolds ==
    (/\ ret.op = "convert_ids"
     /\ \A i, j \in 1..Len(c2) : i # j => default_id(c2[i]) # default_id(c2[j])) =>
        /\ \A i \in 1..Len(c1) : c1[i].id = default_id(c1[i])
        /\ \A a, b \in 1..Len(c1) : \A k \in {pre, co} :
            HasRequisite(c1, b, a, k) <=> HasRequisite(c2, b, a, k)

\* ---------------------------------------------------------------- claims: merge
\* the courses of c2 that match no course of c1
Unmatched(criteria) ==
    {j \in 1..Len(c2) : \A k \in 1..Len(c1) : ~match(c2[j], c1[k], criteria)}

\* the ids a clone's requisite on the c2 course r may point to: the id of a c1
\* course matching r when one exists, else the id of r's clone
TargetIds(r, criteria) ==
    IF \E k \in 1..Len(c1) : match(r, c1[k], criteria)
    THEN {c1[k].id : k \in {k \in 1..Len(c1) : match(r, c1[k], criteria)}}
    ELSE {default_id(r)}

\* the clone of c2's course at position j in the merged courses
CloneOf(merged, j) ==
    merged[CHOOSE i \in 1..Len(merged) : merged[i].obj = NumCourses + c2[j].obj]

\* C19: c1.merge(c2) does not fail and yields all of c1's courses plus one clone
\* per c2 course unmatched in c1; each clone's requisite keeps its kind and points
\* to the id of the c1 course matching it when one exists, else to the id of the
\* requisite's clone; every requisite id is the id of a merged course.
C19_MergeRemapsRequisites ==
    ret.op = "merge" =>
        /\ ~ret.raised
        /\ LET merged == ret.val.courses
               criteria == ret.val.criteria
           IN /\ {merged[i].obj : i \in 1..Len(merged)} =
                    {c1[k].obj : k \in 1..Len(c1)}
                    \cup {NumCourses + c2[j].obj : j \in Unmatched(criteria)}
              /\ Len(merged) = Len(c1) + Cardinality(Unmatched(criteria))
              /\ \A j \in Unmatched(criteria) :
                    LET clone == CloneOf(merged, j)
                    IN /\ \A req \in DOMAIN c2[j].requisites :
                            \E t \in TargetIds(course_from_id(c2, req).course, criteria) :
                                /\ t \in DOMAIN clone.requisites
                                /\ clone.requisites[t] = c2[j].requisites[req]
                       /\ \A t \in DOMAIN clone.requisites :
                            \E req \in DOMAIN c2[j].requisites :
                                /\ t \in TargetIds(course_from_id(c2, req).course, criteria)
                                /\ clone.requisites[t] = c2[j].requisites[req]
              /\ \A i \in 1..Len(merged) : \A req \in DOMAIN merged[i].requisites :
                    \E k \in 1..Len(merged) : merged[k].id = req

\* the failing input of C19: c1 holds one course named X with id 1, c2 a course
\* named X with id 2 and a course with that course as a prerequisite, merged by name
C19_FailingInput ==
    /\ ret.op = "merge"
    /\ ret.val.criteria = {"name"}
    /\ Len(c1) = 1 /\ Len(c2) = 2
    /\ c1[1].name = "X" /\ c1[1].id = 1
    /\ c2[1].name = "X" /\ c2[1].id = 2 /\ c2[1].requisites = <<>>
    /\ c2[2].name # "X" /\ DOMAIN c2[2].requisites = {2} /\ c2[2].requisites[2] = pre
    /\ ret.raised

\* merge with no criteria, the courses matched as objects, does what C19 states
C19_IdentityHolds ==
    (ret.op = "merge" /\ ret.val.criteria = {}) => C19_MergeRemapsRequisites

\* ---------------------------------------------------------- claims: construction
\* two courses of the list carry the same id
DuplicateIds(cs) == \E i, j \in 1..Len(cs) : i # j /\ cs[i].id = cs[j].id

\* a course of the list has a requisite key that is the id of no course of the list
DanglingRequisite(cs) ==
    \E i \in 1..Len(cs) : cs[i].requisites # <<>> /\
        ~(DOMAIN cs[i].requisites \subseteq {cs[k].id : k \in 1..Len(cs)})

\* C21 as stated: constructing a Curriculum from a list with two courses of the
\* same id, or with a requisite key that is no course's id, fails with an error.
C21_MalformedInputFails ==
    (ret.op = "Curriculum" /\ (DuplicateIds(c1) \/ DanglingRequisite(c1))) => ret.raised

\* C21 amended: the construction fails exactly when a requisite key is the id of
\* no course of the list; a list with repeated ids and no such key yields a
\* Curriculum whose graph has, for every requisite key, the edge from the first
\* course carrying the id.
C21_DanglingRequisiteFails ==
    ret.op = "Curriculum" =>
        /\ ret.raised <=> DanglingRequisite(c1)
        /\ ~ret.raised =>
            LET cs == ret.val.courses
            IN \A i \in 1..Len(cs) : \A req \in DOMAIN cs[i].requisites :
                \E k \in 1..Len(cs) :
                    /\ cs[k].id = req
                    /\ \A j \in 1..(k - 1) : cs[j].id # req
                    /\ <<k, i>> \in ret.val.graph.edges

\* a Curriculum was built from a list with two courses of one id, one of them a
\* requisite
C21_Witness ==
    /\ ret.op = "Curriculum"
    /\ ~ret.raised
    /\ DuplicateIds(c1)
    /\ ret.val.graph.edges # {}

\* the construction failed on a list of courses with pairwise different ids
C21_WitnessFails ==
    /\ ret.op = "Curriculum"
    /\ ret.raised
    /\ ~DuplicateIds(c1)
    /\ DanglingRequisite(c1)

\* ------------------------------------------------------- claims: cached metrics
\* the cached property a read returns
ReadOps ==
    [blocking_factors |-> "blocking_factor", delay_factors |-> "delay_factor",
     centralities |-> "centrality", complexities |-> "complexity",
     longest_paths |-> "longest_paths", basic_metrics |-> "basic_metrics"]

\* C22: on a built curriculum no step changes the graph or a metric value that
\* has been computed, whatever requisites are added or deleted, and every read of
\* a metric that has been read before returns the value of the first read.
C22_MetricsAreStable ==
    [][pc = "live" =>
        /\ graph' = graph
        /\ \A m \in CacheKeys :
            /\ cache[m].set => cache'[m] = cache[m]
            /\ (ret'.op = ReadOps[m] /\ ~ret'.raised) =>
                /\ cache'[m].set
                /\ ret'.val.per = cache'[m].val
                /\ cache[m].set => ret'.val.per = cache[m].val]_vars

\* a blocking factor was read after the requisites had changed, and it is the
\* value of the graph as constructed, not of the requisites as they are now
C22_Witness ==
    /\ pc = "live"
    /\ ret.op = "blocking_factor"
    /\ ~ret.raised
    /\ graph.edges # {}
    /\ CreateGraph(requisites) # graph
    /\ ret.val.per = BlockingFactors(graph).per
    /\ ret.val.per # BlockingFactors(CreateGraph(requisites)).per

\* ------------------------------------------------------ claims: topological sort
\* the list is a topological order of the vertices it holds
TopologicalOrder(g, comp) ==
    \A i, j \in 1..Len(comp) : <<comp[i], comp[j]>> \in g.edges => i < j

\* test_topological_sort
WorkedTopologicalSort ==
    /\ topological_sort(Worked12Graph, "") =
        <<<<1>>, <<4, 2, 6, 10, 5, 3>>, <<7, 11, 8>>, <<9>>, <<12>>>>
    /\ topological_sort(Worked12Graph, "descending") =
        <<<<4, 2, 6, 10, 5, 3>>, <<7, 11, 8>>, <<1>>, <<9>>, <<12>>>>
    /\ topological_sort(Worked12Graph, "ascending") =
        <<<<1>>, <<9>>, <<12>>, <<7, 11, 8>>, <<4, 2, 6, 10, 5, 3>>>>

\* C23: on an acyclic graph topological_sort returns the weakly connected
\* components, each in a topological order; with sort ascending or descending
\* the components are ordered by size, and components of equal size by the vertex
\* standing first in each component's topological order, smaller id first.
C23_TopologicalSortOrder ==
    (ret.op = "topological_sort" /\ ~Cyclic(graph)) =>
        LET wcc == ret.val.wcc
        IN /\ {Range(wcc[k]) : k \in 1..Len(wcc)} = {WeakComponent(graph, v) : v \in graph.nodes}
           /\ Len(wcc) = Cardinality({WeakComponent(graph, v) : v \in graph.nodes})
           /\ \A k \in 1..Len(wcc) :
                /\ Len(wcc[k]) = Cardinality(Range(wcc[k]))
                /\ TopologicalOrder(graph, wcc[k])
           /\ ret.val.sort # "" =>
                \A j, k \in 1..Len(wcc) : j < k =>
                    /\ ret.val.sort = "ascending" => Len(wcc[j]) <= Len(wcc[k])
                    /\ ret.val.sort = "descending" => Len(wcc[j]) >= Len(wcc[k])
                    /\ Len(wcc[j]) = Len(wcc[k]) => wcc[j][1] < wcc[k][1]

\* the failing input of C23: the edges 4 -> 1 and 2 -> 3, sorted ascending
C23_FailingInput ==
    /\ ret.op = "topological_sort"
    /\ graph.edges = {<<4, 1>>, <<2, 3>>}
    /\ ret.val.sort = "ascending"
    /\ ret.val.wcc = <<<<4, 1>>, <<2, 3>>>>

\* everything C23 states but the order of components of equal size
C23_ComponentsInTopologicalOrder ==
    (ret.op = "topological_sort" /\ ~Cyclic(graph)) =>
        LET wcc == ret.val.wcc
        IN /\ WorkedTopologicalSort
           /\ {Range(wcc[k]) : k \in 1..Len(wcc)} = {WeakComponent(graph, v) : v \in graph.nodes}
           /\ \A k \in 1..Len(wcc) : TopologicalOrder(graph, wcc[k])
           /\ ret.val.sort # "" =>
                \A j, k \in 1..Len(wcc) : j < k =>
                    /\ ret.val.sort = "ascending" => Len(wcc[j]) <= Len(wcc[k])
                    /\ ret.val.sort = "descending" => Len(wcc[j]) >= Len(wcc[k])

\* ------------------------------------------------ claims: bin filling, selection
\* a turn of the loop of bin_filling in which a course is selected and placed
PlacingStep == pc = "bin" /\ pc' = "bin" /\ UC' # UC

\* a turn of the loop of bin_filling in which nothing is selected
ClosingStep == pc = "bin" /\ pc' = "bin" /\ UC' = UC

\* the course a placing step selects: the one appended to the current term, or
\* the one a new term starts with
Selected == IF terms' = terms THEN term_courses'[Len(term_courses) + 1] ELSE term_courses'[1]

\* no other course still in UC has a path to course c in the curriculum graph
NoUnplacedAncestor(c) ==
    \A i \in 1..Len(UC) :
        UC[i] # c => IndexOf(courses, c) \notin Descendants(graph, IndexOf(courses, UC[i]))

\* course c is a pre requisite of no course of the current term
NotPreOfTermCourse(c) == \A i \in 1..Len(term_courses) : requisites[term_courses[i]][c] # pre

\* no course of the current term is a pre requisite of course c
NoPreInTerm(c) == \A i \in 1..Len(term_courses) : requisites[c][term_courses[i]] # pre

\* the current term is closed if it is not empty, and the next one starts empty
TermClosed ==
    /\ terms' = IF Len(term_courses) > 0 THEN Append(terms, term_courses) ELSE terms
    /\ term_courses' = <<>>
    /\ term_credits' = 0

\* C24 as stated: the course selected is the first course of UC that no other
\* course of UC has a path to and that is not a pre requisite of a course of the
\* current term; when UC has no such course the current term is closed.
C24_SelectsFirstNotPreOfTerm ==
    [][/\ PlacingStep =>
            /\ NoUnplacedAncestor(Selected) /\ NotPreOfTermCourse(Selected)
            /\ \A i \in 1..(IndexOf(UC, Selected) - 1) :
                ~(NoUnplacedAncestor(UC[i]) /\ NotPreOfTermCourse(UC[i]))
       /\ ClosingStep =>
            /\ \A i \in 1..Len(UC) : ~(NoUnplacedAncestor(UC[i]) /\ NotPreOfTermCourse(UC[i]))
            /\ TermClosed]_vars

\* C24 amended: the course selected is the first course of UC that no other
\* course of UC has a path to and that has no course of the current term as a pre
\* requisite; when UC has no such course the current term is closed if non-empty
\* and the next turn selects for an empty term.
C24_SelectsFirstEligible ==
    [][/\ PlacingStep =>
            /\ Selected \in Range(UC)
            /\ NoUnplacedAncestor(Selected) /\ NoPreInTerm(Selected)
            /\ \A i \in 1..(IndexOf(UC, Selected) - 1) :
                ~(NoUnplacedAncestor(UC[i]) /\ NoPreInTerm(UC[i]))
       /\ ClosingStep =>
            /\ \A i \in 1..Len(UC) : ~(NoUnplacedAncestor(UC[i]) /\ NoPreInTerm(UC[i]))
            /\ TermClosed
       /\ (pc = "bin" /\ Len(UC) > 0 /\
           \E i \in 1..Len(UC) : NoUnplacedAncestor(UC[i]) /\ NoPreInTerm(UC[i])) =>
            PlacingStep]_vars

\* a term with room left was closed because the course to place has a course of
\* it as a pre requisite, and that course now starts the next term
C24_Witness ==
    /\ pc = "bin"
    /\ Len(terms) >= 1
    /\ Len(term_courses) >= 1
    /\ \E i \in 1..Len(terms[Len(terms)]) :
        requisites[term_courses[1]][terms[Len(terms)][i]] = pre
    /\ TermCredits(terms[Len(terms)]) + credit_hours[term_courses[1]] <= cpt.max

\* ---------------------------------------------- claims: bin filling, termination
\* C25: every call of bin_filling returns: its loop reaches UC empty, whatever the
\* curriculum and the bounds.
C25_BinFillingTerminates == (pc = "bin") ~> (pc = "returned")

\* the failing input of C25: select_vertex finds no course for an empty term, and
\* the turn of the loop leaves every variable as it was
C25_FailingInput ==
    /\ pc = "bin"
    /\ Len(UC) > 0
    /\ term_courses = <<>>
    /\ select_vertex(graph, requisites, term_courses, UC) = 0

\* on an acyclic curriculum select_vertex finds a course for an empty term
C25_AcyclicProgress ==
    (pc = "bin" /\ Len(UC) > 0 /\ term_courses = <<>> /\ ~Cyclic(graph)) =>
        select_vertex(graph, requisites, term_courses, UC) # 0

\* ------------------------------------------------------ claims: reachability calls
\* C26: during one call of reachable_from(g, v), and of reachable_to(g, v), no
\* vertex has its successors traversed more than once: the calls made during the
\* traversal are for pairwise different vertices.
C26_NoVertexExpandedTwice ==
    (ret.op \in {"reachable_from", "reachable_to"} /\ ~ret.raised) =>
        \A i, j \in 1..Len(ret.val.calls) :
            i # j => ret.val.calls[i] # ret.val.calls[j]

\* reachable_from(g, 3) on the acyclic graph 3 -> 2, 3 -> 1, 2 -> 1 has returned
C26_FailingInput ==
    /\ graph.edges = {<<3, 2>>, <<3, 1>>, <<2, 1>>}
    /\ ret.op = "reachable_from" /\ ~ret.raised
    /\ ret.val.s = 3
    /\ ret.val.calls = <<3, 1, 2, 1>>

\* what the traversal does keep: the returned list holds each reached vertex once
C26_ResultHasNoDuplicates ==
    (ret.op \in {"reachable_from", "reachable_to"} /\ ~ret.raised) =>
        \A i, j \in 1..Len(ret.val.vlist) :
            i # j => ret.val.vlist[i] # ret.val.vlist[j]

\* ------------------------------------------- claims: strict co-requisites in a plan
\* C27: DegreePlan.is_valid returns True only if every course that has a strict_co
\* requisite is placed in exactly the same term as that requisite.
C27_StrictCoSameTerm ==
    (ret.op = "plan.is_valid" /\ ~ret.raised /\ ret.val) =>
        \A c, r \in Courses :
            requisites[c][r] = strict_co => TermsOf(terms, c) = TermsOf(terms, r)

\* course 2 has course 1 as strict_co requisite, course 1 is in the first term and
\* course 2 in the second, and is_valid has returned True
C27_FailingInput ==
    /\ requisites[2][1] = strict_co
    /\ TermsOf(terms, 1) = {1}
    /\ TermsOf(terms, 2) = {2}
    /\ ret.op = "plan.is_valid" /\ ret.val

\* what is_valid does enforce for a strict_co requisite: it is in no later term
\* than the course that needs it
C27_StrictCoNotLater ==
    (ret.op = "plan.is_valid" /\ ~ret.raised /\ ret.val) =>
        \A c, r \in Courses :
            requisites[c][r] = strict_co =>
                \A i \in TermsOf(terms, c) : \A j \in TermsOf(terms, r) : j <= i

\* ------------------------------------------------------ claims: bin filling, terms
\* C28: no term in the list returned by bin_filling is empty, also when the first
\* course selected for an empty current term has more credit hours than max_cpt.
C28_NoEmptyTerm ==
    (pc = "returned" /\ ret.op = "bin_filling") =>
        \A i \in 1..Len(terms) : Len(terms[i]) > 0

\* bin_filling with max_cpt = 2 on courses of 3 credit hours and no requisites has
\* returned, and its first term is empty
C28_FailingInput ==
    /\ pc = "returned" /\ ret.op = "bin_filling"
    /\ NumReqs(requisites) = 0
    /\ cpt.max = 2
    /\ Len(terms) > 0 /\ terms[1] = <<>>

\* with a max_cpt that every course fits in, no returned term is empty
C28_NoEmptyTermWhenCoursesFit ==
    (pc = "returned" /\ ret.op = "bin_filling"
        /\ \A c \in Courses : credit_hours[c] <= cpt.max) =>
        \A i \in 1..Len(terms) : Len(terms[i]) > 0

\* --------------------------------------------------- claims: bin filling, places
CountIn(s, x) == Cardinality({i \in 1..Len(s) : s[i] = x})

CountInTerms(ts, x) == SumSeq([i \in 1..Len(ts) |-> CountIn(ts[i], x)])

\* while the loop runs, course x is once in UC, the current term and the closed terms
\* taken together
InOnePlace(uc, tc, ts, x) == CountIn(uc, x) + CountIn(tc, x) + CountInTerms(ts, x) = 1

\* a step of the while loop, or the return of bin_filling
BinStep == pc = "bin" /\ pc' \in {"bin", "returned"}

\* C29: at every step of bin_filling each curriculum course is in exactly one of
\* UC, the current term and one closed term; a course never returns to UC, a closed
\* term never changes, a course of the current term stays in it or is closed with
\* it, and on return the terms hold every curriculum course exactly once.
C29_EachCourseInOnePlace ==
    [][/\ pc' = "bin" =>
            \A x \in Range(courses) : InOnePlace(UC', term_courses', terms', x)
       /\ BinStep =>
            /\ \A x \in Courses : ~Contains(UC, x) => ~Contains(UC', x)
            /\ Len(terms') >= Len(terms)
            /\ \A i \in 1..Len(terms) : terms'[i] = terms[i]
            /\ \A x \in Range(term_courses) :
                \/ pc' = "bin" /\ Len(terms') = Len(terms) /\ Contains(term_courses', x)
                \/ Len(terms') = Len(terms) + 1 /\ Contains(terms'[Len(terms')], x)
       /\ (BinStep /\ pc' = "returned") =>
            \A x \in Range(courses) : CountInTerms(terms', x) = 1
      ]_vars

\* the loop is running with a course in each of the three places
C29_Witness ==
    /\ pc = "bin"
    /\ Len(UC) > 0
    /\ Len(term_courses) > 0
    /\ \E i \in 1..Len(terms) : Len(terms[i]) > 0
    /\ \A x \in Range(courses) : InOnePlace(UC, term_courses, terms, x)

\* ------------------------------------- claims: deleting the extraneous requisites
\* networkx remove_edges_from: g without the edges es
WithoutEdges(g, es) == [g EXCEPT !.edges = @ \ es]

\* C30: for every acyclic curriculum, deleting from the requisite graph all edges
\* returned by extraneous_requisites at once leaves the set of courses reachable
\* from each course unchanged, and therefore every blocking factor unchanged.
C30_DeletingExtraneousKeepsReach ==
    (pc = "analysed" /\ ret.op = "extraneous_requisites" /\ ~Cyclic(graph)) =>
        /\ ~ret.raised
        /\ ret.val \subseteq graph.edges
        /\ \A v \in graph.nodes :
            \E reduced \in {reachable_from(WithoutEdges(graph, ret.val), v)} :
                /\ ~reduced.raised
                /\ Range(reduced.vlist) = Range(reachable_from(graph, v).vlist)
        /\ BlockingFactors(WithoutEdges(graph, ret.val)).per = BlockingFactors(graph).per

\* extraneous_requisites has returned several edges of a curriculum, among them
\* two that leave different courses, and every course reaches what it reached
C30_Witness ==
    /\ pc = "analysed" /\ ret.op = "extraneous_requisites" /\ ~ret.raised
    /\ Cardinality(ret.val) >= 2
    /\ \E e, f \in ret.val : e[1] # f[1]
    /\ \A v \in graph.nodes :
        Range(reachable_from(WithoutEdges(graph, ret.val), v).vlist)
            = Range(reachable_from(graph, v).vlist)

====
